---- MODULE Spec2Model ----
(***************************************************************************)
(* The CNPJ lookup endpoint in its two handler variants:                   *)
(*   variant "A" : src/api/cnpj.js      (limits per address and per CNPJ)  *)
(*   variant "B" : src/unnamed/part_000 (limits per address, LRU cache)    *)
(* Strings are sequences of one-character strings, so that startsWith,     *)
(* replace(/\D/g,'') and substring are computed on the characters.         *)
(*   Spec          : the endpoint with its upstream calls and its sweeps   *)
(*   SpecAdmission : the requests answered without an upstream call, at    *)
(*                   the instants around the edges of a rate-limit window  *)
(*   SpecCache     : the methods of the two caches called directly         *)
(*   SpecPair      : overlapping requests                                  *)
(*   SpecValidator : the validators and the formatter called directly      *)
(* and the browser side of public/sw.js:                                   *)
(*   SpecPage      : the search form with its retries and its countdown    *)
(*   SpecHistory   : SearchHistoryManager.saveToHistory called directly    *)
(*   SpecWorker    : the fetch listener of the service worker              *)
(***************************************************************************)
EXTENDS Integers, Sequences, FiniteSets, Bags, TLC

VARIABLES
  variant,       \* "A": src/api/cnpj.js, "B": src/unnamed/part_000
  now,           \* Date.now()
  nextSweep,     \* when the setInterval callback is due
  rateLimitMap,  \* key -> timestamp
  requestCache,  \* the Map of the cache, in insertion order
  inflight,      \* bag of the requests suspended at an await
  out,           \* the response sent by the last step, NoReply if none
  nreq,          \* number of requests received
  admitLog,      \* bag of the admissions of the last window: [ip, cnpj, t]
  cacheOps,      \* the direct calls of the cache methods, with their results
  probe,         \* the last direct call of a CNPJValidator method, with its results
  page,          \* the page: appState, RateLimitManager, the search form, its timers
  history,       \* localStorage cnpj_search_history, in the order of the object's keys
  sw             \* the service worker: its cache (url -> response) and its last reply

vars == <<variant, now, nextSweep, rateLimitMap, requestCache, inflight,
          out, nreq, admitLog, cacheOps, probe, page, history, sw>>

\* the variables of the endpoint and those of the browser
server == <<variant, now, nextSweep, rateLimitMap, requestCache, inflight,
            out, nreq, admitLog, cacheOps, probe>>
browser == <<page, history, sw>>

(***************************************************************************)
(* Bounds of the model.  The two admission thresholds and the two cache    *)
(* capacities are scaled down from SECURITY_CONFIG (10 and 3 requests per  *)
(* minute, 1000 and 100 entries) so that a window can be filled and a      *)
(* cache can overflow within MaxRequests requests.                         *)
(***************************************************************************)
MAX_REQUESTS_PER_MINUTE == 3
MAX_REQUESTS_PER_CNPJ_PER_MINUTE == 2
MAX_CACHE_SIZE_A == 2
MAX_CACHE_SIZE_B == 2
MaxRequests == 3
MaxAdmissions == 4
MaxCacheOps == 4
MaxPending == 2
MaxPairRequests == 3
MAX_SEARCH_HISTORY == 2
MaxSaves == 4
MaxSearches == 2
MaxPageSeconds == 4
T0 == 1700000000

(* Program constants, in milliseconds, as in the source. *)
WINDOW_MS == 60000
CACHE_TTL == 300000
TIMEOUT_MS == 10000
SWEEP_INTERVAL_A == 60000
SWEEP_INTERVAL_B == 300000
RATE_MAP_GC_SIZE == 1000
CNPJ_LENGTH == 14
MAX_RETRIES == 2
RETRY_DELAY == 1000
TIMER_PERIOD == 1000
DEFAULT_WAIT == 60

MAX_CACHE_SIZE(v) == IF v = "A" THEN MAX_CACHE_SIZE_A ELSE MAX_CACHE_SIZE_B
SWEEP_INTERVAL(v) == IF v = "A" THEN SWEEP_INTERVAL_A ELSE SWEEP_INTERVAL_B

(***************************************************************************)
(* Characters and strings                                                  *)
(***************************************************************************)
DigitChars == <<"0", "1", "2", "3", "4", "5", "6", "7", "8", "9">>

IsDigit(c) == \E i \in 1..10 : DigitChars[i] = c

\* parseInt of a digit character
DigitVal(c) == (CHOOSE i \in 1..10 : DigitChars[i] = c) - 1

\* Number.prototype.toString() and the `${now}` of a template literal
RECURSIVE NumToString(_)
NumToString(n) ==
  IF n < 10 THEN <<DigitChars[n + 1]>>
  ELSE NumToString(n \div 10) \o <<DigitChars[(n % 10) + 1]>>

\* String.prototype.startsWith
startsWith(s, prefix) ==
  /\ Len(prefix) <= Len(s)
  /\ SubSeq(s, 1, Len(prefix)) = prefix

\* s.replace(/\D/g, '')
StripNonDigits(s) == SelectSeq(s, IsDigit)

\* s.substring(0, n)
Substring0(s, n) == SubSeq(s, 1, IF Len(s) < n THEN Len(s) ELSE n)

\* /^(\d)\1+$/.test(s)
AllSameDigit(s) ==
  /\ Len(s) >= 2
  /\ IsDigit(s[1])
  /\ \A i \in 1..Len(s) : s[i] = s[1]

\* an absent query parameter (undefined)
UNDEFINED == <<"undefined">>

\* JavaScript truthiness of a query parameter: undefined and '' are falsy
Truthy(s) == s # UNDEFINED /\ s # <<>>

(***************************************************************************)
(* SecurityMiddleware                                                      *)
(***************************************************************************)
\* sanitizeCNPJ: the parameter is a string here (UNDEFINED never reaches it)
sanitizeCNPJ(cnpj) == Substring0(StripNonDigits(cnpj), CNPJ_LENGTH)

\* Map.prototype.set on a map held as a function from keys to values
MapSet(map, key, value) ==
  [k \in (DOMAIN map) \cup {key} |-> IF k = key THEN value ELSE map[k]]

\* the loop "if (timestamp < windowStart) rateLimitMap.delete(key)"
PurgeOld(map, windowStart) ==
  [k \in {q \in DOMAIN map : ~(map[q] < windowStart)} |-> map[k]]

IpKeyPrefixA(ip) == <<"i", "p", "-">> \o ip
CnpjKeyPrefixA(cnpj) == <<"c", "n", "p", "j", "-">> \o cnpj

\* number of rateLimitMap entries whose key starts with the prefix and whose
\* timestamp lies after windowStart (variant A)
CountPrefixA(map, prefix, windowStart) ==
  Cardinality({k \in DOMAIN map : startsWith(k, prefix) /\ map[k] > windowStart})

\* checkRateLimit as it would be if the two keys were recorded before the
\* counts are compared
checkRateLimitA_RecordFirst(map, ip, cnpj, t) ==
  LET windowStart == t - WINDOW_MS
      purged == PurgeOld(map, windowStart)
      recorded == MapSet(MapSet(purged,
                    IpKeyPrefixA(ip) \o <<"-">> \o NumToString(t), t),
                    CnpjKeyPrefixA(cnpj) \o <<"-">> \o NumToString(t), t)
  IN  [ok |-> /\ CountPrefixA(purged, IpKeyPrefixA(ip), windowStart)
                   < MAX_REQUESTS_PER_MINUTE
              /\ CountPrefixA(purged, CnpjKeyPrefixA(cnpj), windowStart)
                   < MAX_REQUESTS_PER_CNPJ_PER_MINUTE,
       map |-> recorded]

\* variant A: checkRateLimit(ip, cnpj) at time t; [ok, map]
checkRateLimitA(map, ip, cnpj, t) ==
  LET windowStart == t - WINDOW_MS
      purged == PurgeOld(map, windowStart)
      ipRequests == CountPrefixA(purged, IpKeyPrefixA(ip), windowStart)
      cnpjRequests == CountPrefixA(purged, CnpjKeyPrefixA(cnpj), windowStart)
  IN  IF ipRequests >= MAX_REQUESTS_PER_MINUTE
        THEN [ok |-> FALSE, map |-> purged]
      ELSE IF cnpjRequests >= MAX_REQUESTS_PER_CNPJ_PER_MINUTE
        THEN [ok |-> FALSE, map |-> purged]
      ELSE [ok |-> TRUE,
            map |-> MapSet(MapSet(purged,
                       IpKeyPrefixA(ip) \o <<"-">> \o NumToString(t), t),
                       CnpjKeyPrefixA(cnpj) \o <<"-">> \o NumToString(t), t)]

\* variant B: the filter tests the timestamp's own decimal text against ip
CountB(map, ip, windowStart) ==
  Cardinality({k \in DOMAIN map :
                 map[k] > windowStart /\ startsWith(NumToString(map[k]), ip)})

\* variant B: checkRateLimit(ip) at time t; [ok, map]
checkRateLimitB(map, ip, t) ==
  LET windowStart == t - WINDOW_MS
      purged == IF Cardinality(DOMAIN map) > RATE_MAP_GC_SIZE
                  THEN PurgeOld(map, windowStart) ELSE map
      requestCount == CountB(purged, ip, windowStart)
  IN  IF requestCount >= MAX_REQUESTS_PER_MINUTE
        THEN [ok |-> FALSE, map |-> purged]
      ELSE [ok |-> TRUE,
            map |-> MapSet(purged, ip \o <<"-">> \o NumToString(t), t)]

(***************************************************************************)
(* CNPJValidatorServer                                                     *)
(***************************************************************************)
ERR_LENGTH == "CNPJ deve conter 14 digitos"
ERR_INVALID == "CNPJ invalido"

Invalid(error) == [isValid |-> FALSE, error |-> error, cleaned |-> <<>>]
Valid(cleaned) == [isValid |-> TRUE, error |-> "", cleaned |-> cleaned]

\* variant A: "for (i = tamanho; i >= 1; i--) soma += numeros.charAt(tamanho - i) * pos--"
RECURSIVE SomaA(_, _, _, _)
SomaA(numeros, k, pos, tamanho) ==
  IF k = tamanho THEN 0
  ELSE DigitVal(numeros[k + 1]) * pos
       + SomaA(numeros, k + 1, IF pos - 1 < 2 THEN 9 ELSE pos - 1, tamanho)

\* resultado as it would be without the "soma % 11 < 2 ? 0" branch
ResultadoA_NoClamp(cleaned, tamanho) ==
  11 - (SomaA(SubSeq(cleaned, 1, tamanho), 0, tamanho - 7, tamanho) % 11)

ResultadoA(cleaned, tamanho) ==
  LET soma == SomaA(SubSeq(cleaned, 1, tamanho), 0, tamanho - 7, tamanho)
  IN  IF soma % 11 < 2 THEN 0 ELSE 11 - (soma % 11)

validateA(cnpj) ==
  LET cleaned == StripNonDigits(cnpj)
  IN  IF Len(cleaned) # CNPJ_LENGTH THEN Invalid(ERR_LENGTH)
      ELSE IF AllSameDigit(cleaned) THEN Invalid(ERR_INVALID)
      ELSE IF ResultadoA(cleaned, 12) # DigitVal(cleaned[13]) THEN Invalid(ERR_INVALID)
      ELSE IF ResultadoA(cleaned, 13) # DigitVal(cleaned[14]) THEN Invalid(ERR_INVALID)
      ELSE Valid(cleaned)

\* variant B: "sum += parseInt(cleaned[i]) * weight; weight = weight === 2 ? 9 : weight - 1"
RECURSIVE SumB(_, _, _, _)
SumB(cleaned, i, weight, n) ==
  IF i = n THEN 0
  ELSE DigitVal(cleaned[i + 1]) * weight
       + SumB(cleaned, i + 1, IF weight = 2 THEN 9 ELSE weight - 1, n)

DigitB(cleaned, n, weight) ==
  LET digit == 11 - (SumB(cleaned, 0, weight, n) % 11)
  IN  IF digit > 9 THEN 0 ELSE digit

validateB(cnpj) ==
  LET cleaned == StripNonDigits(cnpj)
  IN  IF Len(cleaned) # CNPJ_LENGTH THEN Invalid(ERR_LENGTH)
      ELSE IF AllSameDigit(cleaned) THEN Invalid(ERR_INVALID)
      ELSE IF DigitB(cleaned, 12, 5) # DigitVal(cleaned[13]) THEN Invalid(ERR_INVALID)
      ELSE IF DigitB(cleaned, 13, 6) # DigitVal(cleaned[14]) THEN Invalid(ERR_INVALID)
      ELSE Valid(cleaned)

(***************************************************************************)
(* CNPJValidator of the page (public/script.js) and of the service worker  *)
(* (public/sw.js)                                                          *)
(***************************************************************************)
ERR_REPEATED == "CNPJ com digitos repetidos e invalido"
ERR_CHECK_DIGIT == "Digito verificador invalido"

\* clean: cnpj.replace(/\D/g, "")
clean(cnpj) == StripNonDigits(cnpj)

\* cleaned.replace(/(\d{2})(\d{3})(\d{3})(\d{4})(\d{2})/, "$1.$2.$3/$4-$5") on
\* a string of digits: the first fourteen are rewritten, the rest is kept
MaskReplace(cleaned) ==
  IF Len(cleaned) < CNPJ_LENGTH THEN cleaned
  ELSE SubSeq(cleaned, 1, 2) \o <<".">> \o SubSeq(cleaned, 3, 5) \o <<".">>
       \o SubSeq(cleaned, 6, 8) \o <<"/">> \o SubSeq(cleaned, 9, 12) \o <<"-">>
       \o SubSeq(cleaned, 13, Len(cleaned))

\* format as it would be if it returned the digits when they are not fourteen
format_Cleaned(cnpj) ==
  IF Len(clean(cnpj)) = CNPJ_LENGTH THEN MaskReplace(clean(cnpj)) ELSE clean(cnpj)

format(cnpj) ==
  LET cleaned == clean(cnpj)
  IN  IF Len(cleaned) = CNPJ_LENGTH THEN MaskReplace(cleaned) ELSE cnpj

\* script.js: the weight loop, the same statements as in variant B of the
\* server; every rejection after the length test says "CNPJ invalido"
validateScript(cnpj) ==
  LET cleaned == clean(cnpj)
  IN  IF Len(cleaned) # CNPJ_LENGTH THEN Invalid(ERR_LENGTH)
      ELSE IF AllSameDigit(cleaned) THEN Invalid(ERR_INVALID)
      ELSE IF DigitB(cleaned, 12, 5) # DigitVal(cleaned[13]) THEN Invalid(ERR_INVALID)
      ELSE IF DigitB(cleaned, 13, 6) # DigitVal(cleaned[14]) THEN Invalid(ERR_INVALID)
      ELSE Valid(cleaned)

\* sw.js: the "tamanho - 7" form, with a reason for each rejection
validateSW(cnpj) ==
  LET cleaned == clean(cnpj)
  IN  IF Len(cleaned) # CNPJ_LENGTH THEN Invalid(ERR_LENGTH)
      ELSE IF AllSameDigit(cleaned) THEN Invalid(ERR_REPEATED)
      ELSE IF ResultadoA(cleaned, 12) # DigitVal(cleaned[13]) THEN Invalid(ERR_CHECK_DIGIT)
      ELSE IF ResultadoA(cleaned, 13) # DigitVal(cleaned[14]) THEN Invalid(ERR_CHECK_DIGIT)
      ELSE Valid(cleaned)

(***************************************************************************)
(* The result caches.  A JavaScript Map iterates in insertion order, so a  *)
(* cache is a sequence of [key, data, timestamp] without repeated keys.    *)
(***************************************************************************)
NULL == [isNull |-> TRUE]

CacheHas(cache, key) == \E i \in 1..Len(cache) : cache[i].key = key
CacheIndex(cache, key) == CHOOSE i \in 1..Len(cache) : cache[i].key = key
CacheDelete(cache, key) == SelectSeq(cache, LAMBDA e : e.key # key)

\* Map.prototype.set as it would be if the Map were a plain list
CacheMapSet_Push(cache, entry) == Append(cache, entry)

\* Map.prototype.set: an existing key keeps its place, a new key goes last
CacheMapSet(cache, entry) ==
  IF CacheHas(cache, entry.key)
    THEN [i \in 1..Len(cache) |->
            IF cache[i].key = entry.key THEN entry ELSE cache[i]]
    ELSE Append(cache, entry)

\* CacheManager.get as it would be if a read consumed the entry
CacheManagerGet_Consume(cache, cnpj, t) ==
  IF CacheHas(cache, cnpj)
     /\ t - cache[CacheIndex(cache, cnpj)].timestamp < CACHE_TTL
    THEN [data |-> cache[CacheIndex(cache, cnpj)].data,
          cache |-> CacheDelete(cache, cnpj)]
  ELSE [data |-> NULL, cache |-> CacheDelete(cache, cnpj)]

\* variant A: CacheManager.get(cnpj) at time t; [data, cache]
CacheManagerGet(cache, cnpj, t) ==
  IF CacheHas(cache, cnpj)
     /\ t - cache[CacheIndex(cache, cnpj)].timestamp < CACHE_TTL
    THEN [data |-> cache[CacheIndex(cache, cnpj)].data, cache |-> cache]
  ELSE IF CacheHas(cache, cnpj)
    THEN [data |-> NULL, cache |-> CacheDelete(cache, cnpj)]
  ELSE [data |-> NULL, cache |-> cache]

\* CacheManager.set as it would be without the size check
CacheManagerSet_NoEvict(cache, cnpj, data, t) ==
  CacheMapSet(cache, [key |-> cnpj, data |-> data, timestamp |-> t])

\* variant A: CacheManager.set(cnpj, data) at time t
CacheManagerSet(cache, cnpj, data, t) ==
  LET evicted == IF Len(cache) >= MAX_CACHE_SIZE_A
                   THEN CacheDelete(cache, cache[1].key) ELSE cache
  IN  CacheMapSet(evicted, [key |-> cnpj, data |-> data, timestamp |-> t])

\* variant B: LRUCache.get(key); [value, cache], value the stored entry or NULL
LRUCacheGet(cache, key) ==
  IF ~CacheHas(cache, key) THEN [value |-> NULL, cache |-> cache]
  ELSE LET entry == cache[CacheIndex(cache, key)]
       IN  [value |-> [data |-> entry.data, timestamp |-> entry.timestamp],
            cache |-> Append(CacheDelete(cache, key), entry)]

\* LRUCache.set as it would be if it removed the newest entry when full
LRUCacheSet_EvictNewest(cache, key, value, t) ==
  LET room == IF CacheHas(cache, key) THEN CacheDelete(cache, key)
              ELSE IF Len(cache) >= MAX_CACHE_SIZE_B
                THEN CacheDelete(cache, cache[Len(cache)].key)
              ELSE cache
  IN  Append(room, [key |-> key, data |-> value, timestamp |-> t])

\* variant B: LRUCache.set(key, value) at time t
LRUCacheSet(cache, key, value, t) ==
  LET room == IF CacheHas(cache, key) THEN CacheDelete(cache, key)
              ELSE IF Len(cache) >= MAX_CACHE_SIZE_B
                THEN CacheDelete(cache, cache[1].key)
              ELSE cache
  IN  Append(room, [key |-> key, data |-> value, timestamp |-> t])

\* variant B LRUCache.cleanup() and the cache loop of variant A's interval
\* callback: both delete the entries with now - timestamp > CACHE_TTL
CacheCleanup(cache, t) ==
  SelectSeq(cache, LAMBDA e : ~(t - e.timestamp > CACHE_TTL))

(***************************************************************************)
(* The upstream registry and DataMapper                                    *)
(***************************************************************************)
\* what the registry may answer for an identifier: a full record, a record
\* with cnpj_raiz only, and a record with neither field
Payloads(cnpj) ==
  { [estabelecimento_cnpj |-> cnpj, cnpj_raiz |-> Substring0(cnpj, 8),
     razao_social |-> "r1"],
    [estabelecimento_cnpj |-> UNDEFINED, cnpj_raiz |-> Substring0(cnpj, 8),
     razao_social |-> "r2"],
    [estabelecimento_cnpj |-> UNDEFINED, cnpj_raiz |-> UNDEFINED,
     razao_social |-> "r1"] }

UpstreamStatuses == {200, 404, 429, 500}

\* mapToFrontendStructure, reduced to taxId and company.name
mapToFrontendStructure(apiData) ==
  [taxId |-> IF Truthy(apiData.estabelecimento_cnpj)
               THEN apiData.estabelecimento_cnpj ELSE apiData.cnpj_raiz,
   name  |-> apiData.razao_social]

(***************************************************************************)
(* Error messages are sequences of fragments; includes() looks for a       *)
(* fragment.                                                               *)
(***************************************************************************)
includes(message, fragment) == \E i \in 1..Len(message) : message[i] = fragment

StatusText(status) ==
  IF status = 404 THEN "404" ELSE IF status = 429 THEN "429"
  ELSE IF status = 500 THEN "500" ELSE "200"

\* bodies the registry may send with a non-success status
ErrorTexts == { <<"Not Found">>, <<"Timeout">> }

\* messages of the TypeError a failed fetch or a broken body rejects with
TransportMessages == { <<"fetch failed">>, <<"Failed to fetch">> }

UpstreamErrorA(status, errorText) ==
  <<"API externa retornou status ", StatusText(status), ": ">> \o errorText
UpstreamErrorB(status, errorText) == <<"API externa: ", StatusText(status)>>
TimeoutErrorA == <<"Timeout", " na consulta da API externa">>
TimeoutErrorB == <<"Timeout", " na consulta">>
BadDataErrorA == <<"Dados invalidos retornados pela API">>
BadDataErrorB == <<"Dados invalidos da API">>
NullPayloadError == <<"Cannot read properties of null (reading 'estabelecimento')">>

\* variant A's choice of status as it would be with a default of 502
CatchStatusA_BadGateway(message) ==
  IF includes(message, "Timeout") THEN 408
  ELSE IF includes(message, "404") \/ includes(message, "nao encontrado") THEN 404
  ELSE IF includes(message, "429") THEN 429
  ELSE IF includes(message, "Failed to fetch") \/ includes(message, "Network") THEN 503
  ELSE 502

\* the status and message chosen by the handler's catch block
CatchStatusA(message) ==
  IF includes(message, "Timeout") THEN 408
  ELSE IF includes(message, "404") \/ includes(message, "nao encontrado") THEN 404
  ELSE IF includes(message, "429") THEN 429
  ELSE IF includes(message, "Failed to fetch") \/ includes(message, "Network") THEN 503
  ELSE 500

CatchStatusB(message) ==
  IF includes(message, "Timeout") THEN 408
  ELSE IF includes(message, "404") THEN 404
  ELSE IF includes(message, "429") THEN 429
  ELSE 500

CatchMessage(v, status) ==
  IF status = 408
    THEN (IF v = "A" THEN "Timeout na consulta externa" ELSE "Timeout na consulta")
  ELSE IF status = 404 THEN "Empresa nao encontrada"
  ELSE IF status = 429 THEN "API externa com limite excedido"
  ELSE IF status = 503 THEN "Servico temporariamente indisponivel"
  ELSE "Erro interno do servidor"

(***************************************************************************)
(* Requests and responses                                                  *)
(***************************************************************************)
\* a request as the handler sees it when it starts at time t
NewRequest(method, ip, param, t) ==
  [pc |-> "sync", method |-> method, ip |-> ip, param |-> param, start |-> t,
   rl |-> "none", found |-> "none", cleaned |-> <<>>, upstream |-> 0,
   calls |-> 0, swept |-> FALSE, sizeBefore |-> 0, overwrote |-> FALSE,
   cause |-> "none", steps |-> <<>>]

Step(ctx, name) == [ctx EXCEPT !.steps = Append(@, name)]

\* res.status(status).json({error, message}) / json({error:false, data, cached})
ErrorReply(ctx, status, message) ==
  [ctx |-> [ctx EXCEPT !.pc = "done"], status |-> status, body |-> "json",
   error |-> TRUE, message |-> message, cached |-> FALSE, data |-> NULL]

DataReply(ctx, data, cached) ==
  [ctx |-> [ctx EXCEPT !.pc = "done"], status |-> 200, body |-> "json",
   error |-> FALSE, message |-> "", cached |-> cached, data |-> data]

\* res.status(200).end()
EmptyReply(ctx) ==
  [ctx |-> [ctx EXCEPT !.pc = "done"], status |-> 200, body |-> "none",
   error |-> FALSE, message |-> "", cached |-> FALSE, data |-> NULL]

NoReply == [status |-> 0]

\* no CNPJValidator method was called
NoProbe == [fn |-> "none"]

\* the request with the class of the failure that ended its upstream call:
\* "status" (a non-success status), "abort" (the timer), "transport" (fetch
\* or a body read rejected), "parse" (a body that is not JSON), "data" (a
\* payload that cannot be mapped or has no taxId)
Failed(ctx, cause) == [ctx EXCEPT !.cause = cause]

MSG_METHOD == "Metodo nao permitido"
MSG_MISSING == "CNPJ nao informado"
MSG_RATE == "Limite de requisicoes excedido. Tente novamente em 1 minuto."

\* the outcome of running a handler up to its response or its next await:
\* the tables as they are left, the request, and the response if one was sent
Outcome(ctx, map, cache, reply) ==
  [ctx |-> ctx, map |-> map, cache |-> cache, reply |-> reply]

(***************************************************************************)
(* getClientIP                                                             *)
(***************************************************************************)
\* s.split(',')[0]
RECURSIVE FirstField(_)
FirstField(s) ==
  IF s = <<>> \/ Head(s) = "," THEN <<>> ELSE <<Head(s)>> \o FirstField(Tail(s))

\* String.prototype.trim, for the blanks a header can carry
RECURSIVE TrimLeft(_)
TrimLeft(s) == IF s # <<>> /\ Head(s) = " " THEN TrimLeft(Tail(s)) ELSE s
RECURSIVE TrimRight(_)
TrimRight(s) ==
  IF s # <<>> /\ s[Len(s)] = " " THEN TrimRight(SubSeq(s, 1, Len(s) - 1)) ELSE s
Trim(s) == TrimRight(TrimLeft(s))

\* variant A: x-forwarded-for's first field, x-real-ip, remoteAddress, 'unknown'
getClientIPA(headers) ==
  IF headers.xff # UNDEFINED /\ Truthy(FirstField(headers.xff))
    THEN FirstField(headers.xff)
  ELSE IF Truthy(headers.realIp) THEN headers.realIp
  ELSE IF Truthy(headers.remoteAddress) THEN headers.remoteAddress
  ELSE <<"unknown">>

\* variant B: the first field is trimmed and x-real-ip is not read
getClientIPB(headers) ==
  IF headers.xff # UNDEFINED /\ Truthy(Trim(FirstField(headers.xff)))
    THEN Trim(FirstField(headers.xff))
  ELSE IF Truthy(headers.remoteAddress) THEN headers.remoteAddress
  ELSE <<"unknown">>

getClientIP(v, headers) ==
  IF v = "A" THEN getClientIPA(headers) ELSE getClientIPB(headers)

(***************************************************************************)
(* The handlers, from the call to the response or to the first await       *)
(***************************************************************************)
\* what an entry for the identifier looks like when the lookup starts
Lookup(cache, cnpj, t) ==
  IF ~CacheHas(cache, cnpj) THEN "absent"
  ELSE IF t - cache[CacheIndex(cache, cnpj)].timestamp < CACHE_TTL THEN "fresh"
  ELSE "stale"

\* fetchCNPJData is entered: the timer is armed and fetch is awaited
CallUpstream(ctx) ==
  [Step(ctx, "fetch") EXCEPT !.pc = "fetch", !.calls = @ + 1]

\* variant A, src/api/cnpj.js, from the cache lookup on
LookupA(map, cache, ctx, t) ==
  LET c == [Step(ctx, "cacheGet") EXCEPT !.found = Lookup(cache, ctx.cleaned, t)]
      got == CacheManagerGet(cache, ctx.cleaned, t)
  IN  IF got.data # NULL
        THEN Outcome(c, map, got.cache, DataReply(c, got.data, TRUE))
        ELSE Outcome(CallUpstream(c), map, got.cache, NoReply)

\* variant A from the rate limit on, as it would be without the validation
AdmitA_NoValidation(map, cache, ctx, t) ==
  LET sanitized == sanitizeCNPJ(ctx.param)
      rl == checkRateLimitA(map, ctx.ip, sanitized, t)
      c1 == [Step(Step(ctx, "sanitize"), "rateLimit")
               EXCEPT !.rl = IF rl.ok THEN "admitted" ELSE "denied"]
      c2 == Step(c1, "validate")
  IN  IF ~rl.ok
        THEN Outcome(c1, rl.map, cache, ErrorReply(c1, 429, MSG_RATE))
      ELSE LookupA(rl.map, cache, [c2 EXCEPT !.cleaned = sanitized], t)

\* variant A, from the rate limit on
AdmitA(map, cache, ctx, t) ==
  LET sanitized == sanitizeCNPJ(ctx.param)
      rl == checkRateLimitA(map, ctx.ip, sanitized, t)
      c1 == [Step(Step(ctx, "sanitize"), "rateLimit")
               EXCEPT !.rl = IF rl.ok THEN "admitted" ELSE "denied"]
      validation == validateA(sanitized)
      c2 == Step(c1, "validate")
  IN  IF ~rl.ok
        THEN Outcome(c1, rl.map, cache, ErrorReply(c1, 429, MSG_RATE))
      ELSE IF ~validation.isValid
        THEN Outcome(c2, rl.map, cache, ErrorReply(c2, 400, validation.error))
      ELSE LookupA(rl.map, cache, [c2 EXCEPT !.cleaned = validation.cleaned], t)

HandlerStartA(map, cache, ctx, t) ==
  IF ctx.method = "OPTIONS" THEN Outcome(ctx, map, cache, EmptyReply(ctx))
  ELSE IF ctx.method # "GET"
    THEN Outcome(ctx, map, cache, ErrorReply(ctx, 405, MSG_METHOD))
  ELSE IF ~Truthy(ctx.param)
    THEN Outcome(Step(ctx, "param"), map, cache,
                 ErrorReply(Step(ctx, "param"), 400, MSG_MISSING))
  ELSE AdmitA(map, cache, Step(ctx, "param"), t)

\* variant B's lookup as it would be without the age test of the handler
LookupB_NoAgeTest(map, cache, ctx, t) ==
  LET c == [Step(ctx, "cacheGet") EXCEPT !.found = Lookup(cache, ctx.cleaned, t)]
      got == LRUCacheGet(cache, ctx.cleaned)
  IN  IF got.value # NULL
        THEN Outcome(c, map, got.cache, DataReply(c, got.value.data, TRUE))
        ELSE Outcome(CallUpstream(c), map, got.cache, NoReply)

\* variant B, src/unnamed/part_000, from the cache lookup on
LookupB(map, cache, ctx, t) ==
  LET c == [Step(ctx, "cacheGet") EXCEPT !.found = Lookup(cache, ctx.cleaned, t)]
      got == LRUCacheGet(cache, ctx.cleaned)
  IN  IF got.value # NULL /\ t - got.value.timestamp < CACHE_TTL
        THEN Outcome(c, map, got.cache, DataReply(c, got.value.data, TRUE))
        ELSE Outcome(CallUpstream(c), map, got.cache, NoReply)

\* variant B, from the query parameter on
ParseB(map, cache, ctx, t) ==
  LET c1 == Step(ctx, "param")
      sanitized == sanitizeCNPJ(ctx.param)
      validation == validateB(sanitized)
      c2 == Step(Step(c1, "sanitize"), "validate")
  IN  IF ~Truthy(ctx.param)
        THEN Outcome(c1, map, cache, ErrorReply(c1, 400, MSG_MISSING))
      ELSE IF ~validation.isValid
        THEN Outcome(c2, map, cache, ErrorReply(c2, 400, validation.error))
      ELSE LookupB(map, cache, [c2 EXCEPT !.cleaned = validation.cleaned], t)

\* variant B's handler as it would be if it looked at the parameter first
HandlerStartB_ParamFirst(map, cache, ctx, t) ==
  IF ctx.method = "OPTIONS" THEN Outcome(ctx, map, cache, EmptyReply(ctx))
  ELSE IF ctx.method # "GET"
    THEN Outcome(ctx, map, cache, ErrorReply(ctx, 405, MSG_METHOD))
  ELSE IF ~Truthy(ctx.param)
    THEN Outcome(Step(ctx, "param"), map, cache,
                 ErrorReply(Step(ctx, "param"), 400, MSG_MISSING))
  ELSE LET rl == checkRateLimitB(map, ctx.ip, t)
           c1 == [Step(ctx, "rateLimit")
                    EXCEPT !.rl = IF rl.ok THEN "admitted" ELSE "denied"]
       IN  IF ~rl.ok
             THEN Outcome(c1, rl.map, cache, ErrorReply(c1, 429, MSG_RATE))
             ELSE ParseB(rl.map, cache, c1, t)

HandlerStartB(map, cache, ctx, t) ==
  IF ctx.method = "OPTIONS" THEN Outcome(ctx, map, cache, EmptyReply(ctx))
  ELSE IF ctx.method # "GET"
    THEN Outcome(ctx, map, cache, ErrorReply(ctx, 405, MSG_METHOD))
  ELSE LET rl == checkRateLimitB(map, ctx.ip, t)
           c1 == [Step(ctx, "rateLimit")
                    EXCEPT !.rl = IF rl.ok THEN "admitted" ELSE "denied"]
       IN  IF ~rl.ok
             THEN Outcome(c1, rl.map, cache, ErrorReply(c1, 429, MSG_RATE))
             ELSE ParseB(rl.map, cache, c1, t)

HandlerStart(v, map, cache, ctx, t) ==
  IF v = "A" THEN HandlerStartA(map, cache, ctx, t)
  ELSE HandlerStartB(map, cache, ctx, t)

(***************************************************************************)
(* The handlers after the awaited upstream call                            *)
(***************************************************************************)
\* the catch block: variant B sweeps the cache first, variant A does not
HandlerCatch(v, map, cache, ctx, message, t) ==
  IF v = "A"
    THEN Outcome(ctx, map, cache,
           ErrorReply(ctx, CatchStatusA(message),
                      CatchMessage("A", CatchStatusA(message))))
    ELSE LET c == [Step(ctx, "sweep") EXCEPT !.swept = TRUE]
         IN  Outcome(c, map, CacheCleanup(cache, t),
               ErrorReply(c, CatchStatusB(message),
                          CatchMessage("B", CatchStatusB(message))))

CacheSet(v, cache, cnpj, data, t) ==
  IF v = "A" THEN CacheManagerSet(cache, cnpj, data, t)
  ELSE LRUCacheSet(cache, cnpj, data, t)

\* the handler after the upstream call as it would be without the taxId test
HandlerData_NoTaxIdCheck(v, map, cache, ctx, apiData, t) ==
  LET mappedData == mapToFrontendStructure(apiData)
      c2 == [Step(Step(Step(ctx, "map"), "taxId"), "cacheSet")
               EXCEPT !.sizeBefore = Len(cache),
                      !.overwrote = CacheHas(cache, ctx.cleaned)]
  IN  IF apiData = NULL
        THEN HandlerCatch(v, map, cache, Failed(Step(ctx, "map"), "data"),
                          NullPayloadError, t)
        ELSE Outcome(c2, map, CacheSet(v, cache, ctx.cleaned, mappedData, t),
                     DataReply(c2, mappedData, FALSE))

\* response.json() delivered apiData: map, check taxId, store, respond
\* (a payload of null makes the mapper throw a TypeError at
\* apiData.estabelecimento)
HandlerData(v, map, cache, ctx, apiData, t) ==
  LET mappedData == mapToFrontendStructure(apiData)
      c1 == Step(Step(ctx, "map"), "taxId")
      c2 == [Step(c1, "cacheSet") EXCEPT !.sizeBefore = Len(cache),
                                         !.overwrote = CacheHas(cache, ctx.cleaned)]
  IN  IF apiData = NULL
        THEN HandlerCatch(v, map, cache, Failed(Step(ctx, "map"), "data"),
                          NullPayloadError, t)
      ELSE IF ~Truthy(mappedData.taxId)
        THEN HandlerCatch(v, map, cache, Failed(c1, "data"),
                          IF v = "A" THEN BadDataErrorA ELSE BadDataErrorB, t)
        ELSE Outcome(c2, map, CacheSet(v, cache, ctx.cleaned, mappedData, t),
                     DataReply(c2, mappedData, FALSE))

(***************************************************************************)
(* The clients: the requests that may arrive                               *)
(***************************************************************************)
REMOTE == <<"1", ".", "2", ".", "3", ".", "4">>

CNPJ_1 == <<"1","1","2","2","2","3","3","3","0","0","0","1","8","1">>
CNPJ_2 == <<"1","1","4","4","4","7","7","7","0","0","0","1","6","1">>
CNPJ_3 == <<"1","2","3","4","5","6","7","8","0","0","0","1","9","5">>
CNPJ_BAD == <<"1","2","3","4","5","6","7","8","0","0","0","1","0","0">>
CNPJ_1_MASKED ==
  <<"1","1",".","2","2","2",".","3","3","3","/","0","0","0","1","-","8","1">>

Headers(xff) == [xff |-> xff, realIp |-> UNDEFINED, remoteAddress |-> REMOTE]

Get(xff, param) == [method |-> "GET", headers |-> Headers(xff), param |-> param]

\* the requests of the whole endpoint: GETs without a parameter, for three
\* valid identifiers (one of them masked) and for one with wrong check
\* digits, and the other methods
Requests ==
  { Get(UNDEFINED, q) :
      q \in {UNDEFINED, CNPJ_1_MASKED, CNPJ_2, CNPJ_3, CNPJ_BAD} }
  \cup { [method |-> m, headers |-> Headers(UNDEFINED), param |-> CNPJ_1] :
           m \in {"POST", "OPTIONS"} }

\* the instants at which the endpoint is observed: the start, the next
\* millisecond, and the millisecond after one TTL; so entries are looked up
\* at the ages 0, 1, CACHE_TTL and CACHE_TTL + 1
Instants == { T0, T0 + 1, T0 + CACHE_TTL + 1 }

\* the requests that exercise admission, all answered without an upstream
\* call: no parameter, a parameter without digits, two digits, fourteen
\* digits with wrong check digits; sent directly or with a one-character
\* x-forwarded-for header
AdmissionRequests ==
  { Get(UNDEFINED, q) : q \in {UNDEFINED, <<"x">>, <<"1", "2">>, CNPJ_BAD} }
  \cup { Get(<<"1">>, q) : q \in {UNDEFINED, CNPJ_BAD} }

\* the instants at which admission is observed: three consecutive
\* milliseconds, the last millisecond of the window that starts at T0, and
\* the two after it
AdmissionInstants ==
  { T0, T0 + 1, T0 + 2, T0 + WINDOW_MS - 1, T0 + WINDOW_MS, T0 + WINDOW_MS + 1 }

\* fifteen digits: CNPJ_1 followed by one more digit
CNPJ_1_LONG == CNPJ_1 \o <<"9">>

\* the requests that overlap: the same identifier plain and with a digit
\* too many, two other identifiers, and a parameter of two digits
PairRequests ==
  { Get(UNDEFINED, q) : q \in {CNPJ_1, CNPJ_1_LONG, CNPJ_2, CNPJ_3, <<"1", "2">>} }

\* three consecutive milliseconds
PairInstants == { T0, T0 + 1, T0 + 2 }

(***************************************************************************)
(* The service worker of public/sw.js: its cache and its fetch listener    *)
(***************************************************************************)
ORIGIN == <<"o">>
URL_ROOT == ORIGIN \o <<"/">>
URL_INDEX == ORIGIN \o <<"/", "index.html">>
URL_STYLE == ORIGIN \o <<"/", "style.css">>
URL_SCRIPT == ORIGIN \o <<"/", "script.js">>
URL_API == ORIGIN \o <<"/", "api", "/", "cnpj", "?cnpj=1">>
URL_ICON == ORIGIN \o <<"/", "favicon.ico">>

\* urlsToCache, resolved against the origin
urlsToCache == {URL_ROOT, URL_STYLE, URL_SCRIPT, URL_INDEX}

\* the urls that the page requests
Urls == urlsToCache \cup {URL_API, URL_ICON}

Response(status, body) == [status |-> status, body |-> body]

\* what the network may answer, or no answer at all (fetch rejects)
Offline == [status |-> 0, body |-> "none"]
NetworkOutcomes ==
  {Response(st, b) : st \in {200, 404, 500}, b \in {"v1", "v2"}} \cup {Offline}

\* caches.match: the stored response or undefined
NoMatch == [status |-> 0, body |-> "undefined"]
CacheMatch(cache, url) == IF url \in DOMAIN cache THEN cache[url] ELSE NoMatch

\* cache.put(request, response)
CachePut(cache, url, response) ==
  [u \in (DOMAIN cache) \cup {url} |-> IF u = url THEN response ELSE cache[u]]

\* the install listener: cache.addAll(urlsToCache), every resource answered 200
InstalledCache == [u \in urlsToCache |-> Response(200, "v0")]

\* event.request.url.includes('/index.html') || url === origin + '/'
IsHtml(url) ==
  \/ \E i \in 1..(Len(url) - 1) : url[i] = "/" /\ url[i + 1] = "index.html"
  \/ url = URL_ROOT

\* network first: the response is put into the cache and returned; the
\* cache answers when fetch rejects
NetworkFirst(cache, url, net) ==
  IF net = Offline THEN [cache |-> cache, reply |-> CacheMatch(cache, url), from |-> "cache"]
  ELSE [cache |-> CachePut(cache, url, net), reply |-> net, from |-> "network"]

\* cache first: a stored response is returned; otherwise the network's, which
\* is stored when its status is 200
CacheFirst(cache, url, net) ==
  IF CacheMatch(cache, url) # NoMatch
    THEN [cache |-> cache, reply |-> CacheMatch(cache, url), from |-> "cache"]
  ELSE IF net = Offline \/ net.status # 200
    THEN [cache |-> cache, reply |-> net, from |-> "network"]
  ELSE [cache |-> CachePut(cache, url, net), reply |-> net, from |-> "network"]

\* the fetch listener
OnFetch(cache, url, net) ==
  IF IsHtml(url) THEN NetworkFirst(cache, url, net)
  ELSE CacheFirst(cache, url, net)

(***************************************************************************)
(* JavaScript numbers of the page: an integer or NaN                       *)
(***************************************************************************)
Num(n) == [nan |-> FALSE, v |-> n]
NaN == [nan |-> TRUE, v |-> 0]

\* a < b, a <= b: false when either side is NaN
Lt(a, b) == ~a.nan /\ ~b.nan /\ a.v < b.v
Le(a, b) == ~a.nan /\ ~b.nan /\ a.v <= b.v
Plus(a, b) == IF a.nan \/ b.nan THEN NaN ELSE Num(a.v + b.v)
Times(a, b) == IF a.nan \/ b.nan THEN NaN ELSE Num(a.v * b.v)

\* String(x), x.toString(), `${x}`
JsToString(x) ==
  IF x.nan THEN <<"N", "a", "N">>
  ELSE IF x.v < 0 THEN <<"-">> \o NumToString(-x.v)
  ELSE NumToString(x.v)

\* the digits at the start of s
RECURSIVE LeadingDigits(_)
LeadingDigits(s) ==
  IF s = <<>> \/ ~IsDigit(Head(s)) THEN <<>>
  ELSE <<Head(s)>> \o LeadingDigits(Tail(s))

RECURSIVE DigitsValue(_)
DigitsValue(d) ==
  IF d = <<>> THEN 0
  ELSE DigitsValue(SubSeq(d, 1, Len(d) - 1)) * 10 + DigitVal(d[Len(d)])

\* parseInt(s): leading blanks, an optional sign, then digits; NaN without
\* digits
RECURSIVE parseInt(_)
parseInt(s) ==
  IF s # <<>> /\ Head(s) = " " THEN parseInt(Tail(s))
  ELSE LET neg == s # <<>> /\ Head(s) = "-"
           rest == IF s # <<>> /\ Head(s) \in {"-", "+"} THEN Tail(s) ELSE s
           d == LeadingDigits(rest)
       IN  IF d = <<>> THEN NaN
           ELSE Num(IF neg THEN -DigitsValue(d) ELSE DigitsValue(d))

\* error.message.split(':')[1]
RECURSIVE UpToColon(_)
UpToColon(s) ==
  IF s = <<>> \/ Head(s) = ":" THEN <<>> ELSE <<Head(s)>> \o UpToColon(Tail(s))
RECURSIVE AfterColon(_)
AfterColon(s) ==
  IF s = <<>> THEN <<>>
  ELSE IF Head(s) = ":" THEN Tail(s) ELSE AfterColon(Tail(s))
SecondField(s) == UpToColon(AfterColon(s))

(***************************************************************************)
(* SearchHistoryManager of public/sw.js                                    *)
(***************************************************************************)
\* history[cnpj] = {data, timestamp, companyName}: a key that exists keeps
\* its place among the keys of the object, a new key comes last
HistoryPut(h, e) ==
  IF \E i \in 1..Len(h) : h[i].cnpj = e.cnpj
    THEN [i \in 1..Len(h) |-> IF h[i].cnpj = e.cnpj THEN e ELSE h[i]]
    ELSE Append(h, e)

\* entries.sort((a, b) => new Date(b[1].timestamp) - new Date(a[1].timestamp)):
\* newest first; the sort is stable, entries of one timestamp keep their order
InsertByTimestamp(sorted, e) ==
  LET before == SelectSeq(sorted, LAMBDA x : x.timestamp >= e.timestamp)
      after == SelectSeq(sorted, LAMBDA x : x.timestamp < e.timestamp)
  IN  before \o <<e>> \o after

RECURSIVE SortNewestFirst(_)
SortNewestFirst(h) ==
  IF h = <<>> THEN <<>>
  ELSE InsertByTimestamp(SortNewestFirst(SubSeq(h, 1, Len(h) - 1)), h[Len(h)])

\* saveToHistory(cnpj, data) at the time timestamp (new Date().toISOString()
\* is read back with new Date(), which gives the same millisecond)
saveToHistory(h, cnpj, data, timestamp) ==
  LET h1 == HistoryPut(h, [cnpj |-> cnpj, data |-> data, timestamp |-> timestamp])
  IN  IF Len(h1) > MAX_SEARCH_HISTORY
        THEN SubSeq(SortNewestFirst(h1), 1, MAX_SEARCH_HISTORY)
        ELSE h1

(***************************************************************************)
(* The page of public/sw.js: appState, RateLimitManager and the search     *)
(* form.  A page is a record:                                              *)
(*   clock         Date.now()                                              *)
(*   input, disabled   the value of cnpjInput; searchBtn and cnpjInput off *)
(*   shown         what the message area shows                             *)
(*   retryCount, pendingSearch   appState                                  *)
(*   resetTime     localStorage cnpj_rate_limit, "" when absent            *)
(*   timerInterval RateLimitManager.timerInterval, 0 for null              *)
(*   intervals     the setInterval timers that run: [id, remaining, due]   *)
(*   loading       appState.isLoading                                      *)
(*   searches      bag of the searchCNPJ calls suspended at an await       *)
(*   started, saves, attempts, autoRetries, lastSaved   history of the run *)
(*   last          what the last step of the page was                      *)
(***************************************************************************)
NoItem == <<>>
NoSearch == <<>>

InitPage ==
  [clock |-> T0, input |-> <<>>, disabled |-> FALSE, shown |-> "none",
   retryCount |-> 0, pendingSearch |-> NoSearch, resetTime |-> NoItem,
   timerInterval |-> 0, intervals |-> {}, searches |-> EmptyBag,
   loading |-> FALSE, started |-> 0, saves |-> 0, attempts |-> 0,
   autoRetries |-> 0, lastSaved |-> NoSearch, last |-> "load"]

\* RateLimitManager.isRateLimited
isRateLimited(p) ==
  p.resetTime # NoItem /\ Lt(Num(p.clock), parseInt(p.resetTime))

\* RateLimitManager.getRemainingTime: Math.max(0, Math.ceil(remaining / 1000))
getRemainingTime(p) ==
  IF p.resetTime = NoItem THEN Num(0)
  ELSE LET remaining == Plus(parseInt(p.resetTime), Num(-p.clock))
       IN  IF remaining.nan THEN NaN
           ELSE IF remaining.v <= 0 THEN Num(0)
           ELSE Num((remaining.v + 999) \div 1000)

\* RateLimitManager.stopTimer
stopTimer(p) ==
  IF p.timerInterval # 0
    THEN [p EXCEPT !.intervals = {iv \in @ : iv.id # p.timerInterval},
                   !.timerInterval = 0]
    ELSE p

\* RateLimitManager.clearRateLimit
clearRateLimit(p) == stopTimer([p EXCEPT !.resetTime = NoItem])

\* setInterval: the id of the new timer
FreshId(p) == CHOOSE id \in 1..(Cardinality(p.intervals) + 1) :
                \A iv \in p.intervals : iv.id # id

\* RateLimitManager.startTimer(seconds)
startTimer(p, seconds) ==
  LET q == stopTimer(p)
      id == FreshId(q)
  IN  [q EXCEPT !.timerInterval = id,
                !.intervals = @ \cup {[id |-> id, remaining |-> seconds,
                                       due |-> q.clock + TIMER_PERIOD]},
                !.autoRetries = 0]

\* RateLimitManager.setRateLimit(seconds)
setRateLimit(p, seconds) ==
  startTimer([p EXCEPT !.resetTime =
                JsToString(Plus(Num(p.clock), Times(seconds, Num(1000))))],
             seconds)

\* UIManager.updateTimerDisplay(seconds)
updateTimerDisplay(p, seconds) ==
  IF Le(seconds, Num(0)) THEN [p EXCEPT !.shown = "none", !.disabled = FALSE]
  ELSE [p EXCEPT !.shown = "timer"]

\* UIManager.showRateLimitError(waitTime)
showRateLimitError(p, waitTime) ==
  LET validation == validateSW(p.input)
      p1 == IF p.input # <<>> /\ validation.isValid
              THEN [p EXCEPT !.pendingSearch = validation.cleaned] ELSE p
      p2 == [setRateLimit(p1, waitTime) EXCEPT !.disabled = TRUE]
  IN  updateTimerDisplay(p2, waitTime)

\* UIManager.searchCNPJ up to "await ApiManager.fetchCNPJ(cnpj)"
searchCNPJ(p, cnpj, attempt) ==
  [p EXCEPT !.loading = TRUE, !.disabled = TRUE, !.attempts = attempt,
            !.searches = @ (+) SetToBag({[cnpj |-> cnpj, pc |-> "fetch",
                                           due |-> 0, attempt |-> attempt]})]

\* UIManager.handleSearch up to its first await
handleSearch(p) ==
  LET validation == validateSW(p.input)
  IN  IF isRateLimited(p) THEN showRateLimitError(p, getRemainingTime(p))
      ELSE IF ~validation.isValid THEN [p EXCEPT !.shown = "error"]
      ELSE searchCNPJ([p EXCEPT !.shown = "none"], validation.cleaned, 1)

\* UIManager.handleAutoRetry
handleAutoRetry(p) ==
  IF p.pendingSearch # NoSearch
    THEN [handleSearch([p EXCEPT !.input = format(p.pendingSearch)])
            EXCEPT !.pendingSearch = NoSearch, !.autoRetries = @ + 1]
    ELSE p

\* the finally block of searchCNPJ
searchFinally(p) ==
  IF ~isRateLimited(p) THEN [p EXCEPT !.loading = FALSE, !.disabled = FALSE]
  ELSE [p EXCEPT !.loading = FALSE]

\* ApiManager.fetchCNPJ on a 429: the message of the error it throws
RateLimitMessage(retryAfter) ==
  <<"R", "A", "T", "E", "_", "L", "I", "M", "I", "T", ":">>
    \o JsToString(IF retryAfter # <<>> THEN parseInt(retryAfter)
                  ELSE Num(DEFAULT_WAIT))

\* the values of the Retry-After header: absent, seconds, an HTTP date
RetryAfterHeaders ==
  { <<>>, <<"1">>, <<"0">>,
    <<"W", "e", "d", ",", " ", "2", "1", " ", "O", "c", "t">> }

(***************************************************************************)
(* Initial state: the module has just been loaded                          *)
(***************************************************************************)
Init ==
  /\ variant \in {"A", "B"}
  /\ now = T0
  /\ nextSweep = T0 + SWEEP_INTERVAL(variant)
  /\ rateLimitMap = <<>>
  /\ requestCache = <<>>
  /\ inflight = EmptyBag
  /\ out = NoReply
  /\ nreq = 0
  /\ admitLog = EmptyBag
  /\ cacheOps = <<>>
  /\ probe = NoProbe
  /\ page = InitPage
  /\ history = <<>>
  /\ sw = [cache |-> InstalledCache, reply |-> NoMatch, from |-> "none"]

(***************************************************************************)
(* Actions                                                                 *)
(***************************************************************************)
\* the tables, the pending requests and the response after a handler ran
\* to outcome o; `others` are the requests it leaves suspended
Settle(o, others) ==
  /\ rateLimitMap' = o.map
  /\ requestCache' = o.cache
  /\ inflight' = IF o.reply = NoReply THEN others (+) SetToBag({o.ctx}) ELSE others
  /\ out' = o.reply

Without(c) == inflight (-) SetToBag({c})

\* a request arrives and its handler runs to its response or to await fetch
\* (at most maxPending requests await the upstream at a time, and at most
\* maxRequests requests arrive)
Request(r, maxPending, maxRequests) ==
  /\ nreq < maxRequests
  /\ LET ip == getClientIP(variant, r.headers)
         o == HandlerStart(variant, rateLimitMap, requestCache,
                           NewRequest(r.method, ip, r.param, now), now)
     IN  /\ o.reply # NoReply \/ BagCardinality(inflight) < maxPending
         /\ Settle(o, inflight)
         /\ admitLog' =
              IF o.ctx.rl = "admitted"
                THEN admitLog (+) SetToBag({[ip |-> ip, t |-> now,
                        cnpj |-> IF variant = "A" THEN sanitizeCNPJ(r.param)
                                 ELSE <<>>]})
                ELSE admitLog
  /\ nreq' = nreq + 1
  /\ UNCHANGED <<browser, variant, cacheOps, probe, now, nextSweep>>

\* fetch resolves with the status line: the timer is cleared and the body
\* (json() on success, text() otherwise) is awaited
FetchResolves(c, status) ==
  /\ c.pc = "fetch"
  /\ inflight' = Without(c) (+)
       SetToBag({[c EXCEPT !.pc = IF status = 200 THEN "json" ELSE "text",
                           !.upstream = status]})
  /\ out' = NoReply
  /\ UNCHANGED <<browser, variant, cacheOps, probe, now, nextSweep, rateLimitMap, requestCache,
                 nreq, admitLog>>

\* fetch rejects with a TypeError
FetchRejects(c, message) ==
  /\ c.pc = "fetch"
  /\ Settle(HandlerCatch(variant, rateLimitMap, requestCache,
                         Failed(c, "transport"), message, now),
            Without(c))
  /\ UNCHANGED <<browser, variant, cacheOps, probe, now, nextSweep, nreq, admitLog>>

\* the TIMEOUT_MS timer fires while fetch is pending: abort, AbortError
FetchAborts(c) ==
  /\ c.pc = "fetch"
  /\ now >= c.start + TIMEOUT_MS
  /\ Settle(HandlerCatch(variant, rateLimitMap, requestCache,
                         Failed(c, "abort"),
                         IF variant = "A" THEN TimeoutErrorA ELSE TimeoutErrorB,
                         now), Without(c))
  /\ UNCHANGED <<browser, variant, cacheOps, probe, now, nextSweep, nreq, admitLog>>

\* response.json() resolves with the parsed payload
JsonArrives(c) ==
  /\ c.pc = "json"
  /\ \E apiData \in Payloads(c.cleaned) \cup {NULL} :
       Settle(HandlerData(variant, rateLimitMap, requestCache, c, apiData, now),
              Without(c))
  /\ UNCHANGED <<browser, variant, cacheOps, probe, now, nextSweep, nreq, admitLog>>

\* response.json() rejects: a body that is not JSON, or a broken transfer
JsonRejects(c, message) ==
  /\ c.pc = "json"
  /\ Settle(HandlerCatch(variant, rateLimitMap, requestCache,
                         Failed(c, IF message \in TransportMessages
                                     THEN "transport" ELSE "parse"),
                         message, now),
            Without(c))
  /\ UNCHANGED <<browser, variant, cacheOps, probe, now, nextSweep, nreq, admitLog>>

\* response.text() resolves with the error body: the client throws
TextArrives(c, errorText) ==
  /\ c.pc = "text"
  /\ Settle(HandlerCatch(variant, rateLimitMap, requestCache,
              Failed(c, "status"),
              IF variant = "A" THEN UpstreamErrorA(c.upstream, errorText)
              ELSE UpstreamErrorB(c.upstream, errorText),
              now), Without(c))
  /\ UNCHANGED <<browser, variant, cacheOps, probe, now, nextSweep, nreq, admitLog>>

\* response.text() rejects: variant A rethrows it, variant B's
\* .catch(() => 'Unknown error') swallows it and the status is thrown
TextRejects(c, message) ==
  /\ c.pc = "text"
  /\ Settle(HandlerCatch(variant, rateLimitMap, requestCache,
              Failed(c, IF variant = "A" THEN "transport" ELSE "status"),
              IF variant = "A" THEN message
              ELSE UpstreamErrorB(c.upstream, <<"Unknown error">>),
              now), Without(c))
  /\ UNCHANGED <<browser, variant, cacheOps, probe, now, nextSweep, nreq, admitLog>>

\* the setInterval callback: the cache loop and the rateLimitMap loop; the
\* timer is re-armed from the time it ran
Sweep ==
  /\ now >= nextSweep
  /\ requestCache' = CacheCleanup(requestCache, now)
  /\ rateLimitMap' = PurgeOld(rateLimitMap, now - WINDOW_MS)
  /\ nextSweep' = now + SWEEP_INTERVAL(variant)
  /\ out' = NoReply
  /\ UNCHANGED <<browser, variant, cacheOps, probe, now, inflight, nreq, admitLog>>

\* entries of the admission log that are still within one window of time t
InWindowLog(log, t) ==
  LET keep == {e \in BagToSet(log) : e.t >= t - WINDOW_MS}
  IN  [e \in keep |-> log[e]]

\* the clock moves to the next of the instants
Tick(instants) ==
  /\ \E t \in instants : t > now
  /\ now' = CHOOSE t \in instants : t > now /\ \A u \in instants : u > now => t <= u
  /\ admitLog' = InWindowLog(admitLog, now')
  /\ out' = NoReply
  /\ UNCHANGED <<browser, variant, cacheOps, probe, nextSweep, rateLimitMap, requestCache, inflight, nreq>>

Pending == BagToSet(inflight)

Next ==
  \/ \E r \in Requests : Request(r, 1, MaxRequests)
  \/ \E c \in Pending, status \in UpstreamStatuses : FetchResolves(c, status)
  \/ \E c \in Pending, m \in TransportMessages : FetchRejects(c, m)
  \/ \E c \in Pending : FetchAborts(c)
  \/ \E c \in Pending : JsonArrives(c)
  \/ \E c \in Pending, m \in TransportMessages \cup {<<"Unexpected token">>} :
       JsonRejects(c, m)
  \/ \E c \in Pending, e \in ErrorTexts : TextArrives(c, e)
  \/ \E c \in Pending, m \in TransportMessages : TextRejects(c, m)
  \/ Sweep
  \/ Tick(Instants)

Spec == Init /\ [][Next]_vars

\* admission alone: the requests that are answered without an upstream call
NextAdmission ==
  \/ \E r \in AdmissionRequests : Request(r, 1, MaxAdmissions)
  \/ Sweep
  \/ Tick(AdmissionInstants)

SpecAdmission == Init /\ [][NextAdmission]_vars

\* overlapping requests: up to MaxPending handlers are suspended at an await
\* while another request arrives or another handler resumes; the upstream
\* answers within milliseconds
NextPair ==
  \/ \E r \in PairRequests : Request(r, MaxPending, MaxPairRequests)
  \/ \E c \in Pending, status \in {200, 404} : FetchResolves(c, status)
  \/ \E c \in Pending : JsonArrives(c)
  \/ \E c \in Pending, e \in ErrorTexts : TextArrives(c, e)
  \/ Tick(PairInstants)

SpecPair == Init /\ [][NextPair]_vars

(***************************************************************************)
(* The caches alone: their methods called directly                         *)
(***************************************************************************)
CacheKeys == {CNPJ_1, CNPJ_2, CNPJ_3}

\* the records that can be stored under a key
CacheValues(key) ==
  {d \in {mapToFrontendStructure(p) : p \in Payloads(key)} : Truthy(d.taxId)}

\* CacheManager.set(key, value) / requestCache.set(key, value)
CacheSetCall(key, value) ==
  /\ Len(cacheOps) < MaxCacheOps
  /\ requestCache' = CacheSet(variant, requestCache, key, value, now)
  /\ cacheOps' = Append(cacheOps,
       [op |-> "set", key |-> key, value |-> value, t |-> now])
  /\ out' = NoReply
  /\ UNCHANGED <<browser, variant, probe, now, nextSweep, rateLimitMap, inflight, nreq,
                 admitLog>>

\* CacheManager.get(key) / requestCache.get(key): the returned value is kept
CacheGetCall(key) ==
  /\ Len(cacheOps) < MaxCacheOps
  /\ LET got == IF variant = "A"
                  THEN CacheManagerGet(requestCache, key, now)
                  ELSE [data |-> LRUCacheGet(requestCache, key).value,
                        cache |-> LRUCacheGet(requestCache, key).cache]
     IN  /\ requestCache' = got.cache
         /\ cacheOps' = Append(cacheOps,
              [op |-> "get", key |-> key, value |-> got.data, t |-> now])
  /\ out' = NoReply
  /\ UNCHANGED <<browser, variant, probe, now, nextSweep, rateLimitMap, inflight, nreq,
                 admitLog>>

NextCache ==
  \/ \E k \in CacheKeys : \E v \in CacheValues(k) : CacheSetCall(k, v)
  \/ \E k \in CacheKeys : CacheGetCall(k)
  \/ Sweep
  \/ Tick(Instants)

SpecCache == Init /\ [][NextCache]_vars

(***************************************************************************)
(* The validators and the formatter alone: called on one input at a time   *)
(***************************************************************************)
\* the ten digit characters
Digits == {DigitChars[i] : i \in 1..Len(DigitChars)}

\* the first twelve digits of the identifiers that are tried
Stems ==
  { SubSeq(c, 1, 12) : c \in {CNPJ_1, CNPJ_2, CNPJ_3} }
  \cup { [i \in 1..12 |-> d] : d \in {"0", "1", "9"} }

\* the stems with one of the positions 1, 5 and 12 set to any digit
VariedStems ==
  { [st EXCEPT ![p] = d] : st \in Stems, p \in {1, 5, 12}, d \in Digits }

\* fourteen digits: a stem followed by any two check digits
FourteenDigits ==
  { st \o <<d1, d2>> : st \in VariedStems, d1 \in Digits, d2 \in Digits }

\* inputs with punctuation, letters, too few or too many digits, or none
OddInputs ==
  { <<>>, <<"1", "2", "3">>, <<"a", "b", "c", "1", "2", "3">>, <<"a", "b", "c">>,
    CNPJ_1_MASKED, CNPJ_1_LONG, SubSeq(CNPJ_1, 1, 13),
    MaskReplace(CNPJ_3), MaskReplace(CNPJ_BAD), MaskReplace(CNPJ_1_LONG),
    MaskReplace([i \in 1..14 |-> "1"]), MaskReplace([i \in 1..13 |-> "1"] \o <<"2">>),
    <<"x">> \o CNPJ_2 \o <<" ">>, SubSeq(CNPJ_2, 1, 7) \o <<"-">> \o SubSeq(CNPJ_2, 8, 14),
    SubSeq(MaskReplace(CNPJ_3), 1, 17), MaskReplace(CNPJ_3) \o <<"0">> }

ValidatorInputs == FourteenDigits \cup OddInputs

FormatInputs ==
  OddInputs \cup { st \o <<"0", "0">> : st \in VariedStems }
  \cup { MaskReplace(st \o <<"0", "0">>) : st \in Stems }

\* validate(x), by each of the validators; the functions keep no state, so
\* a run makes one call
Validate ==
  /\ probe = NoProbe
  /\ \E x \in ValidatorInputs :
       probe' = [fn |-> "validate", input |-> x,
                 server |-> validateA(x), serverB |-> validateB(x),
                 client |-> validateScript(x), sw |-> validateSW(x)]
  /\ out' = NoReply
  /\ UNCHANGED <<browser, variant, now, nextSweep, rateLimitMap, requestCache, inflight,
                 nreq, admitLog, cacheOps>>

\* format(x), format(clean(x)) and format(format(x))
Format ==
  /\ probe = NoProbe
  /\ \E x \in FormatInputs :
       probe' = [fn |-> "format", input |-> x, cleaned |-> clean(x),
                 formatted |-> format(x), ofCleaned |-> format(clean(x)),
                 twice |-> format(format(x))]
  /\ out' = NoReply
  /\ UNCHANGED <<browser, variant, now, nextSweep, rateLimitMap, requestCache, inflight,
                 nreq, admitLog, cacheOps>>

NextValidator == Validate \/ Format

SpecValidator == Init /\ [][NextValidator]_vars

(***************************************************************************)
(* The page alone: the user searches, the endpoint answers, timers fire    *)
(***************************************************************************)
\* what the user may type before searching
PageInputs == {CNPJ_1, MaskReplace(CNPJ_2), <<"1", "2">>}

\* the records that the endpoint may return
PageData == {[taxId |-> CNPJ_1, name |-> "r1"], [taxId |-> CNPJ_1, name |-> "r2"]}

Searches == BagToSet(page.searches)
WithoutSearch(p, c) == [p EXCEPT !.searches = @ (-) SetToBag({c})]

Did(p, what) == [p EXCEPT !.last = what]

\* no timer of the page is overdue
TimersServed ==
  /\ \A iv \in page.intervals : page.clock < iv.due
  /\ \A c \in Searches : c.pc = "delay" => page.clock < c.due

\* the user types x and clicks the search button (or presses Enter)
UserSearch(x) ==
  /\ ~page.disabled
  /\ page.started < MaxSearches
  /\ page' = Did(handleSearch([page EXCEPT !.input = x, !.started = @ + 1]),
                 "search")
  /\ UNCHANGED <<server, history, sw>>

\* fetchCNPJ returns data: the rest of the try block and the finally block
SearchSucceeds(c, data) ==
  /\ c.pc = "fetch"
  /\ history' = saveToHistory(history, c.cnpj, data, page.clock)
  /\ page' = Did(searchFinally(
       [WithoutSearch(page, c) EXCEPT
          !.retryCount = 0, !.saves = @ + 1,
          !.lastSaved = [cnpj |-> c.cnpj, data |-> data, timestamp |-> page.clock]]),
       "data")
  /\ UNCHANGED <<server, sw>>

\* fetchCNPJ throws RATE_LIMIT:<waitTime> on a 429
SearchRateLimited(c, retryAfter) ==
  /\ c.pc = "fetch"
  /\ LET waitTime == parseInt(SecondField(RateLimitMessage(retryAfter)))
     IN  page' = Did(searchFinally(
                       showRateLimitError(WithoutSearch(page, c), waitTime)),
                     "rateLimit")
  /\ UNCHANGED <<server, history, sw>>

\* fetchCNPJ throws any other error: retry after RETRY_DELAY, or give up
SearchFails(c) ==
  /\ c.pc = "fetch"
  /\ page' =
       IF page.retryCount < MAX_RETRIES
         THEN [WithoutSearch(page, c) EXCEPT
                 !.retryCount = @ + 1, !.last = "retry",
                 !.searches = @ (+) SetToBag({[c EXCEPT !.pc = "delay",
                                                 !.due = page.clock + RETRY_DELAY]})]
         ELSE searchFinally([WithoutSearch(page, c) EXCEPT
                 !.shown = "error", !.retryCount = 0, !.attempts = c.attempt,
                 !.last = "giveUp"])
  /\ UNCHANGED <<server, history, sw>>

\* the delay ends: searchCNPJ is called again
DelayEnds(c) ==
  /\ c.pc = "delay" /\ page.clock >= c.due
  /\ page' = Did(searchCNPJ(WithoutSearch(page, c), c.cnpj, c.attempt + 1),
                 "attempt")
  /\ UNCHANGED <<server, history, sw>>

\* the setInterval callback of startTimer
IntervalFires(iv) ==
  /\ page.clock >= iv.due
  /\ LET remaining == Plus(iv.remaining, Num(-1))
         p1 == [page EXCEPT !.intervals =
                  (@ \ {iv}) \cup {[iv EXCEPT !.remaining = remaining,
                                              !.due = @ + TIMER_PERIOD]}]
         p2 == updateTimerDisplay(p1, remaining)
     IN  page' = IF Le(remaining, Num(0))
                   THEN Did(handleAutoRetry(clearRateLimit(stopTimer(p2))), "end")
                   ELSE Did(p2, "tick")
  /\ UNCHANGED <<server, history, sw>>

\* a second passes on the page's clock, the timers that are due having run
PageClock ==
  /\ page.clock < T0 + MaxPageSeconds * 1000
  /\ TimersServed
  /\ page' = [page EXCEPT !.clock = @ + 1000, !.last = "clock"]
  /\ UNCHANGED <<server, history, sw>>

NextPage ==
  \/ \E x \in PageInputs : UserSearch(x)
  \/ \E c \in Searches, data \in PageData : SearchSucceeds(c, data)
  \/ \E c \in Searches, h \in RetryAfterHeaders : SearchRateLimited(c, h)
  \/ \E c \in Searches : SearchFails(c)
  \/ \E c \in Searches : DelayEnds(c)
  \/ \E iv \in page.intervals : IntervalFires(iv)
  \/ PageClock

SpecPage == Init /\ [][NextPage]_vars

(***************************************************************************)
(* The search history alone                                                *)
(***************************************************************************)
HistoryKeys == {CNPJ_1, CNPJ_2, CNPJ_3}

\* SearchHistoryManager.saveToHistory(cnpj, data)
SaveCall(cnpj, data) ==
  /\ page.saves < MaxSaves
  /\ history' = saveToHistory(history, cnpj, data, page.clock)
  /\ page' = [page EXCEPT !.saves = @ + 1, !.last = "save",
                !.lastSaved = [cnpj |-> cnpj, data |-> data, timestamp |-> page.clock]]
  /\ UNCHANGED <<server, sw>>

\* the clock of the machine is set back by a second (Date.now() is the wall
\* clock, which a time correction moves backwards)
ClockSetBack ==
  /\ page.clock > T0 - MaxPageSeconds * 1000
  /\ page' = [page EXCEPT !.clock = @ - 1000, !.last = "clock"]
  /\ UNCHANGED <<server, history, sw>>

NextHistory ==
  \/ \E k \in HistoryKeys, data \in PageData : SaveCall(k, data)
  \/ PageClock
  \/ ClockSetBack

SpecHistory == Init /\ [][NextHistory]_vars

(***************************************************************************)
(* The service worker alone                                                *)
(***************************************************************************)
\* a fetch event for url, the network answering net
FetchEvent(url, net) ==
  /\ LET o == OnFetch(sw.cache, url, net)
     IN  sw' = [cache |-> o.cache, reply |-> o.reply, from |-> o.from]
  /\ UNCHANGED <<server, page, history>>

NextWorker == \E url \in Urls, net \in NetworkOutcomes : FetchEvent(url, net)

SpecWorker == Init /\ [][NextWorker]_vars

(***************************************************************************)
(* What the clients observe                                                *)
(***************************************************************************)
Replied == out # NoReply

\* the response of the last step answers a request whose admission was decided
Decided == Replied /\ out.ctx.rl # "none"

\* the admission that the decided request is, or would have been
ThisAdmission ==
  [ip |-> out.ctx.ip, t |-> out.ctx.start,
   cnpj |-> IF variant = "A" THEN sanitizeCNPJ(out.ctx.param) ELSE <<>>]

\* the admissions before the decided request
PriorLog ==
  IF out.ctx.rl = "admitted" THEN admitLog (-) SetToBag({ThisAdmission})
  ELSE admitLog

\* how many of them, within the window ending now, satisfy Test
RECURSIVE SumCopies(_, _)
SumCopies(log, S) ==
  IF S = {} THEN 0
  ELSE LET e == CHOOSE x \in S : TRUE
       IN  log[e] + SumCopies(log, S \ {e})

PriorInWindow(Test(_)) ==
  SumCopies(PriorLog, {e \in BagToSet(PriorLog) : now - e.t < WINDOW_MS /\ Test(e)})

\* one address, pairwise distinct timestamps, pairwise different identifiers
DistinctTraffic ==
  LET all == admitLog (+) (IF out.ctx.rl = "admitted" THEN EmptyBag
                           ELSE SetToBag({ThisAdmission}))
  IN  /\ \A e \in BagToSet(all) : all[e] = 1 /\ e.ip = out.ctx.ip
      /\ \A e1, e2 \in BagToSet(all) :
           e1 # e2 => e1.t # e2.t /\ e1.cnpj # e2.cnpj

\* no two of the requests counted arrived in the same millisecond
DistinctInstants ==
  LET all == admitLog (+) (IF out.ctx.rl = "admitted" THEN EmptyBag
                           ELSE SetToBag({ThisAdmission}))
  IN  /\ \A e \in BagToSet(all) : all[e] = 1
      /\ \A e1, e2 \in BagToSet(all) : e1 # e2 => e1.t # e2.t

(***************************************************************************)
(* C1: in src/api/cnpj.js, for one address that sends requests at pairwise *)
(* distinct timestamps and for pairwise different identifiers, a request   *)
(* is admitted exactly when fewer than MAX_REQUESTS_PER_MINUTE requests of *)
(* the address were admitted in the 60 seconds before it.                  *)
(***************************************************************************)
C1_AdmitsExactlyThreshold ==
  (Decided /\ variant = "A" /\ DistinctTraffic)
    => (out.ctx.rl = "admitted"
          <=> PriorInWindow(LAMBDA e : e.ip = out.ctx.ip) < MAX_REQUESTS_PER_MINUTE)

(***************************************************************************)
(* C2: in src/unnamed/part_000 a request of an address is admitted exactly *)
(* when fewer than MAX_REQUESTS_PER_MINUTE requests of that address were   *)
(* admitted in the 60 seconds before it (the requests arriving in pairwise *)
(* distinct milliseconds): the next one is denied.                         *)
(***************************************************************************)
C2_AdmitsExactlyThresholdB ==
  (Decided /\ variant = "B" /\ DistinctInstants)
    => (out.ctx.rl = "admitted"
          <=> PriorInWindow(LAMBDA e : e.ip = out.ctx.ip) < MAX_REQUESTS_PER_MINUTE)

(***************************************************************************)
(* C3: in src/api/cnpj.js, once MAX_REQUESTS_PER_CNPJ_PER_MINUTE requests  *)
(* for a sanitized identifier were admitted within 60 seconds, no further  *)
(* request for it is admitted in that window, whatever its address.        *)
(***************************************************************************)
C3_PerCnpjLimit ==
  (Decided /\ variant = "A" /\ out.ctx.rl = "admitted")
    => PriorInWindow(LAMBDA e : e.cnpj = ThisAdmission.cnpj)
         < MAX_REQUESTS_PER_CNPJ_PER_MINUTE

(***************************************************************************)
(* C4: a denied admission check records nothing: in a step that answers    *)
(* 429 because checkRateLimit returned false, every entry of rateLimitMap  *)
(* after the step was there, with the same timestamp, before it.           *)
(***************************************************************************)
DeniedStep == out'.status = 429 /\ out'.ctx.rl = "denied"

C4_DeniedRecordsNothing ==
  [][DeniedStep =>
       \A k \in DOMAIN rateLimitMap' :
         k \in DOMAIN rateLimitMap /\ rateLimitMap'[k] = rateLimitMap[k]]_vars

\* a request was denied while entries of its window are in the table
C4_Witness ==
  /\ Replied /\ out.status = 429 /\ out.ctx.rl = "denied"
  /\ variant = "A"
  /\ \E k \in DOMAIN rateLimitMap : now - rateLimitMap[k] < WINDOW_MS

\* the same, in variant B
C4_DeniedInB ==
  /\ Replied /\ out.status = 429 /\ out.ctx.rl = "denied"
  /\ variant = "B"

(***************************************************************************)
(* C5: in every reachable state the result cache holds at most             *)
(* MAX_CACHE_SIZE entries, whatever requests and sweeps came before.       *)
(***************************************************************************)
C5_CacheBounded == Len(requestCache) <= MAX_CACHE_SIZE(variant)

\* a record was stored while the cache was full, and the cache is full
C5_Witness ==
  /\ Replied /\ out.status = 200 /\ out.body = "json" /\ ~out.cached
  /\ out.ctx.sizeBefore = MAX_CACHE_SIZE(variant)
  /\ Len(requestCache) = MAX_CACHE_SIZE(variant)

(***************************************************************************)
(* C6: a response with cached:true is always taken from an entry younger   *)
(* than CACHE_TTL when the request is handled, swept or not; a lookup of   *)
(* an entry whose age has reached CACHE_TTL is a miss.                     *)
(***************************************************************************)
C6_NeverServesStale ==
  [][(out'.status = 200 /\ out'.cached)
       => \E i \in 1..Len(requestCache) :
            /\ requestCache[i].key = out'.ctx.cleaned
            /\ now - requestCache[i].timestamp < CACHE_TTL
            /\ requestCache[i].data = out'.data]_vars

\* variant B looked up an entry of age CACHE_TTL or more, which no sweep
\* had removed, and went on to the upstream
C6_Witness ==
  /\ variant = "B"
  /\ \E c \in Pending :
       /\ c.found = "stale" /\ c.pc = "fetch"
       /\ CacheHas(requestCache, c.cleaned)

(***************************************************************************)
(* C7: for both caches, get(k) immediately after set(k, v) returns v; and  *)
(* after maxEntries + 1 distinct keys were inserted by consecutive set     *)
(* calls into an empty cache, the first key is no longer retrievable and   *)
(* every later key still is.                                               *)
(***************************************************************************)
LastOp == cacheOps[Len(cacheOps)]
PrevOp == cacheOps[Len(cacheOps) - 1]

\* the last two calls were set(k, v) and then get(k), less than a TTL apart
SetThenGet ==
  /\ Len(cacheOps) >= 2
  /\ PrevOp.op = "set" /\ LastOp.op = "get" /\ LastOp.key = PrevOp.key
  /\ LastOp.t - PrevOp.t < CACHE_TTL

\* the calls so far: set for maxEntries + 1 distinct keys, then one get
Overflowed ==
  LET n == MAX_CACHE_SIZE(variant) + 1
  IN  /\ Len(cacheOps) = n + 1
      /\ \A i \in 1..n : cacheOps[i].op = "set"
      /\ \A i, j \in 1..n : i # j => cacheOps[i].key # cacheOps[j].key
      /\ LastOp.op = "get"
      /\ LastOp.t - cacheOps[1].t < CACHE_TTL

FirstKeyGone ==
  Overflowed =>
    /\ LastOp.key = cacheOps[1].key => LastOp.value = NULL
    /\ \A i \in 2..(Len(cacheOps) - 1) :
         LastOp.key = cacheOps[i].key => LastOp.value # NULL

validate(v, cnpj) == IF v = "A" THEN validateA(cnpj) ELSE validateB(cnpj)

\* a step in which a request arrives, and that request as the step leaves it
Arrives == nreq' = nreq + 1
Arrived ==
  IF out' # NoReply THEN out'.ctx
  ELSE CHOOSE c \in BagToSet(inflight') :
         CopiesIn(c, inflight') > CopiesIn(c, inflight)

FreshEntries(cache, cnpj, t) ==
  {i \in 1..Len(cache) : cache[i].key = cnpj /\ t - cache[i].timestamp < CACHE_TTL}

Entries(cache) == {cache[i] : i \in 1..Len(cache)}

C8_FreshHit ==
  [][(/\ Arrives
      /\ Arrived.method = "GET" /\ Truthy(Arrived.param)
      /\ Arrived.rl = "admitted"
      /\ validate(variant, sanitizeCNPJ(Arrived.param)).isValid
      /\ FreshEntries(requestCache, sanitizeCNPJ(Arrived.param), now) # {})
     => /\ out'.status = 200 /\ out'.cached /\ ~out'.error
        /\ \A i \in FreshEntries(requestCache, sanitizeCNPJ(Arrived.param), now) :
             out'.data = requestCache[i].data
        /\ Arrived.calls = 0
        /\ inflight' = inflight
        /\ Entries(requestCache') = Entries(requestCache)]_vars

\* a request was answered from a fresh entry
C8_Witness ==
  /\ Replied /\ out.status = 200 /\ out.cached
  /\ out.ctx.found = "fresh" /\ out.ctx.calls = 0

(***************************************************************************)
(* C9: a request calls the upstream registry once if it is a GET with a    *)
(* cnpj parameter that is admitted, valid and misses the cache, and never  *)
(* otherwise; a request rejected with 405, 400 or 429 before the upstream  *)
(* call does not modify the cache.                                         *)
(***************************************************************************)
SeenCtx == Pending \cup (IF Replied THEN {out.ctx} ELSE {})

ShouldCall(c) ==
  /\ c.method = "GET" /\ Truthy(c.param)
  /\ c.rl = "admitted"
  /\ validate(variant, sanitizeCNPJ(c.param)).isValid
  /\ c.found \in {"absent", "stale"}

RejectedStep == out'.status \in {400, 405, 429} /\ out'.ctx.calls = 0

C9_UpstreamOnlyOnMiss ==
  [][/\ \A c \in SeenCtx' : c.calls = IF ShouldCall(c) THEN 1 ELSE 0
     /\ RejectedStep => requestCache' = requestCache]_vars

\* a request is rejected while the cache holds an entry and another request
\* awaits the one upstream call it made
C9_Witness ==
  /\ Replied /\ out.status \in {400, 405, 429} /\ out.ctx.calls = 0
  /\ requestCache # <<>>
  /\ \E c \in Pending : c.calls = 1

(***************************************************************************)
(* C10: the steps of a request happen in the order rate limit, parameter,  *)
(* sanitization, validation, cache lookup, upstream call, mapping, taxId   *)
(* check, cache store; so a GET without a cnpj parameter passes through    *)
(* the rate limit.                                                         *)
(***************************************************************************)
ClaimedOrder ==
  <<"rateLimit", "param", "sanitize", "validate", "cacheGet", "fetch",
    "map", "taxId", "cacheSet">>

\* the order of src/api/cnpj.js
OrderA ==
  <<"param", "sanitize", "rateLimit", "validate", "cacheGet", "fetch",
    "map", "taxId", "cacheSet">>

StepOrder(v) == IF v = "A" THEN OrderA ELSE ClaimedOrder

\* the steps of the request proper, without the sweep of the catch block
OwnSteps(c) == SelectSeq(c.steps, LAMBDA x : x # "sweep")

IsPrefix(s, order) == Len(s) <= Len(order) /\ s = SubSeq(order, 1, Len(s))

\* as claimed: one order for both variants
C10_ClaimedOrder ==
  /\ \A c \in SeenCtx : IsPrefix(OwnSteps(c), ClaimedOrder)
  /\ (Replied /\ out.ctx.method = "GET" /\ ~Truthy(out.ctx.param))
       => out.ctx.rl # "none"

MissingParamStep == out'.status = 400 /\ out'.message = MSG_MISSING

\* as the code does it: src/unnamed/part_000 follows the claimed order and
\* records a GET without cnpj; src/api/cnpj.js inspects and sanitizes the
\* parameter first and answers a GET without cnpj with no rate-limit check
C10_OrderPerVariant ==
  [][/\ \A c \in SeenCtx' : IsPrefix(OwnSteps(c), StepOrder(variant))
     /\ MissingParamStep =>
          IF variant = "A"
            THEN out'.ctx.rl = "none" /\ rateLimitMap' = rateLimitMap
            ELSE /\ out'.ctx.rl = "admitted"
                 /\ (out'.ctx.ip \o <<"-">> \o NumToString(now))
                      \in DOMAIN rateLimitMap']_vars

\* variant A completed a request through all its steps
C10_Witness ==
  /\ variant = "A"
  /\ Replied /\ out.status = 200 /\ out.body = "json"
  /\ OwnSteps(out.ctx) = OrderA

(***************************************************************************)
(* C11: every GET ends with one response: whatever the upstream does, a    *)
(* request leaves the handler only by a response, which is JSON with       *)
(* error:true, a message and a status in {400, 404, 408, 429, 500, 503}    *)
(* when it fails and status 200 with error:false when it succeeds.         *)
(***************************************************************************)
FailureStatuses == {400, 404, 408, 429, 500, 503}

WellFormed(reply) ==
  /\ reply.body = "json"
  /\ \/ reply.error /\ reply.status \in FailureStatuses /\ reply.message # ""
     \/ ~reply.error /\ reply.status = 200 /\ reply.data # NULL

C11_OneWellFormedResponse ==
  [][/\ (out' # NoReply /\ out'.ctx.method = "GET") => WellFormed(out')
     /\ BagCardinality(inflight') < BagCardinality(inflight)
          => /\ out' # NoReply
             /\ BagCardinality(inflight') = BagCardinality(inflight) - 1
     /\ Arrives => (out' # NoReply) # (BagCardinality(inflight')
                                        = BagCardinality(inflight) + 1)]_vars

\* the upstream answered 200 with the payload null: the mapper threw and
\* the request was answered 500
C11_Witness ==
  /\ Replied /\ out.error /\ out.status = 500
  /\ out.ctx.upstream = 200 /\ out.ctx.cause = "data"
  /\ OwnSteps(out.ctx)[Len(OwnSteps(out.ctx))] = "map"

(***************************************************************************)
(* C12: the status of a failure response follows from the class of the     *)
(* upstream failure alone: upstream status 404 gives 404, 429 gives 429,   *)
(* an abort by the timer gives 408 and any other non-success status gives  *)
(* 500, whatever the text of the upstream error body.                      *)
(***************************************************************************)
C12_StatusByFailureClass ==
  (Replied /\ out.ctx.cause \in {"status", "abort"})
    => out.status = IF out.ctx.cause = "abort" THEN 408
                    ELSE IF out.ctx.upstream = 404 THEN 404
                    ELSE IF out.ctx.upstream = 429 THEN 429
                    ELSE 500

(***************************************************************************)
(* C13: in each variant, when a request fails after admission and          *)
(* validation (upstream error, timeout, record without taxId), a sweep     *)
(* removes the expired cache entries before the failure response is sent:  *)
(* when the response is sent no entry older than CACHE_TTL is left.        *)
(***************************************************************************)
FailsAfterValidation == out' # NoReply /\ out'.error /\ out'.ctx.calls = 1

Expired(cache, t) == {i \in 1..Len(cache) : t - cache[i].timestamp > CACHE_TTL}

C13_SweepBeforeFailure ==
  [][FailsAfterValidation => Expired(requestCache', now') = {}]_vars

(***************************************************************************)
(* C14: every record in the result cache has a non-empty taxId: a mapped   *)
(* record without taxId is answered 500 and nothing is stored, so no       *)
(* response with cached:true carries a record without taxId.               *)
(***************************************************************************)
AllHaveTaxId(cache) == \A i \in 1..Len(cache) : Truthy(cache[i].data.taxId)

NoTaxIdStep ==
  /\ out' # NoReply /\ out'.ctx.cause = "data"
  /\ OwnSteps(out'.ctx)[Len(OwnSteps(out'.ctx))] = "taxId"

C14_CachedRecordsHaveTaxId ==
  [][/\ AllHaveTaxId(requestCache')
     /\ NoTaxIdStep => /\ out'.status = 500 /\ out'.error
                       /\ Entries(requestCache') \subseteq Entries(requestCache)
     /\ (out'.status = 200 /\ out'.cached) => Truthy(out'.data.taxId)]_vars

\* the upstream delivered a payload without taxId while a record was cached
C14_Witness ==
  /\ Replied /\ out.ctx.cause = "data" /\ out.status = 500
  /\ OwnSteps(out.ctx)[Len(OwnSteps(out.ctx))] = "taxId"
  /\ requestCache # <<>>

(***************************************************************************)
(* C15: the wait on the upstream call is bounded: while the upstream has   *)
(* not delivered its complete reply (status line and body), the expiry of  *)
(* the TIMEOUT_MS timer aborts the call, so that the request is answered   *)
(* 408 even if the upstream never finishes.                                *)
(***************************************************************************)
C15_TimerBoundsTheWait ==
  \A c \in Pending : now >= c.start + TIMEOUT_MS => ENABLED FetchAborts(c)

(***************************************************************************)
(* C16: two requests for the same identifier may both miss the cache,      *)
(* both call the upstream and both write the cache; whatever the           *)
(* interleaving, the cache never holds two entries for one identifier, a   *)
(* write leaves under its identifier exactly the writer's record with the  *)
(* time of the write, every other step leaves each entry as it was or      *)
(* removes it (so after both finished the entry is the later writer's),    *)
(* and the capacity bound holds.                                           *)
(***************************************************************************)
EntriesFor(cache, key) == {i \in 1..Len(cache) : cache[i].key = key}

NoDuplicateKeys(cache) ==
  \A i, j \in 1..Len(cache) : cache[i].key = cache[j].key => i = j

\* this step is the end of a handler that stored the record it answers with
StoreStep == out'.status = 200 /\ ~out'.error /\ ~out'.cached

C16_OneEntryPerIdentifier ==
  [][/\ NoDuplicateKeys(requestCache')
     /\ Len(requestCache') <= MAX_CACHE_SIZE(variant)
     /\ StoreStep =>
          /\ Cardinality(EntriesFor(requestCache', out'.ctx.cleaned)) = 1
          /\ \A i \in EntriesFor(requestCache', out'.ctx.cleaned) :
               /\ requestCache'[i].data = out'.data
               /\ requestCache'[i].timestamp = now
     /\ \A e \in Entries(requestCache') :
          \/ e \in Entries(requestCache)
          \/ StoreStep /\ e.key = out'.ctx.cleaned]_vars

\* the second of two overlapping writers: the identifier was absent when it
\* looked, it called the upstream, and by the time it wrote the other
\* request had stored a different record
C16_Witness ==
  /\ Replied /\ out.status = 200 /\ ~out.cached
  /\ out.ctx.found = "absent" /\ out.ctx.calls = 1 /\ out.ctx.overwrote
  /\ inflight = EmptyBag
  /\ \E i \in EntriesFor(requestCache, out.ctx.cleaned) :
       requestCache[i].data = out.data /\ out.data.name = "r2"

(***************************************************************************)
(* C17: validate accepts an input exactly when its digits number 14, are   *)
(* not all identical, and the 13th and 14th equal the modulo-11 check      *)
(* digits computed with the weights 5,4,3,2,9,8,7,6,5,4,3,2 and            *)
(* 6,5,4,3,2,9,8,7,6,5,4,3,2 (a result above 9 counts as 0); on acceptance *)
(* it returns the 14 digits; the weight-loop form of script.js and the     *)
(* "tamanho - 7" form of api/cnpj.js give the same verdict.                *)
(***************************************************************************)
Weights1 == <<5, 4, 3, 2, 9, 8, 7, 6, 5, 4, 3, 2>>
Weights2 == <<6, 5, 4, 3, 2, 9, 8, 7, 6, 5, 4, 3, 2>>

RECURSIVE WeightedSum(_, _, _)
WeightedSum(digits, weights, n) ==
  IF n = 0 THEN 0
  ELSE DigitVal(digits[n]) * weights[n] + WeightedSum(digits, weights, n - 1)

CheckDigit(digits, weights) ==
  LET r == 11 - (WeightedSum(digits, weights, Len(weights)) % 11)
  IN  IF r > 9 THEN 0 ELSE r

Acceptable(digits) ==
  /\ Len(digits) = 14
  /\ \E i, j \in 1..14 : digits[i] # digits[j]
  /\ DigitVal(digits[13]) = CheckDigit(digits, Weights1)
  /\ DigitVal(digits[14]) = CheckDigit(digits, Weights2)

Validated == probe.fn = "validate"

C17_ValidateIsModulo11 ==
  Validated =>
    LET digits == StripNonDigits(probe.input)
    IN  /\ probe.server.isValid <=> Acceptable(digits)
        /\ probe.client.isValid <=> Acceptable(digits)
        /\ probe.server.isValid = probe.client.isValid
        /\ Acceptable(digits) => /\ probe.server.cleaned = digits
                                 /\ probe.client.cleaned = digits

\* an accepted, punctuated or plain, identifier whose first check digit is
\* the 0 that stands for a result above 9
C17_Witness ==
  /\ Validated /\ probe.server.isValid /\ probe.client.isValid
  /\ 11 - (WeightedSum(probe.server.cleaned, Weights1, 12) % 11) > 9
  /\ 11 - (WeightedSum(probe.server.cleaned, Weights2, 13) % 11) <= 9

(***************************************************************************)
(* C18: CNPJValidator.validate of the page gives each failure class its    *)
(* own reason, tested in the order length, repeated digits, check digits:  *)
(* a stripped length other than 14 gives "CNPJ deve conter 14 digitos", 14 *)
(* identical digits give "CNPJ com digitos repetidos e invalido", and any  *)
(* other input whose check digits disagree gives "Digito verificador       *)
(* invalido".                                                              *)
(***************************************************************************)
C18_ReasonPerClass ==
  Validated =>
    LET digits == StripNonDigits(probe.input)
        repeated == \A i, j \in 1..Len(digits) : digits[i] = digits[j]
    IN  /\ Len(digits) # 14 => probe.client.error = ERR_LENGTH
        /\ (Len(digits) = 14 /\ repeated) => probe.client.error = ERR_REPEATED
        /\ (Len(digits) = 14 /\ ~repeated /\ ~Acceptable(digits)) =>
             probe.client.error = ERR_CHECK_DIGIT

(***************************************************************************)
(* C19: for every input whose digits number exactly 14, format(clean(x))   *)
(* equals format(x), the result is the mask NN.NNN.NNN/NNNN-NN over those  *)
(* digits, and format(format(x)) = format(x); for every input whose digit  *)
(* count is not 14, format returns the input unchanged.                    *)
(***************************************************************************)
Formatted == probe.fn = "format"

\* s is NN.NNN.NNN/NNNN-NN over the fourteen digits
IsMaskOf(s, digits) ==
  /\ Len(s) = 18
  /\ s[3] = "." /\ s[7] = "." /\ s[11] = "/" /\ s[16] = "-"
  /\ \A i \in 1..18 : i \notin {3, 7, 11, 16} => IsDigit(s[i])
  /\ StripNonDigits(s) = digits

C19_FormatRoundTrip ==
  Formatted =>
    LET digits == StripNonDigits(probe.input)
    IN  IF Len(digits) = 14
          THEN /\ probe.ofCleaned = probe.formatted
               /\ IsMaskOf(probe.formatted, digits)
               /\ probe.twice = probe.formatted
          ELSE probe.formatted = probe.input

\* a punctuated input of fourteen digits that is not yet in the mask
C19_Witness ==
  /\ Formatted
  /\ Len(probe.cleaned) = 14 /\ probe.input # probe.cleaned
  /\ probe.input # probe.formatted /\ probe.twice = probe.formatted

(***************************************************************************)
(* C20: a GET whose cnpj parameter contains, after stripping non-digit     *)
(* characters, a number of digits other than 14 (fewer or more) never      *)
(* reaches the cache or the upstream and, unless the limiter denies it, is *)
(* answered 400 with the wrong-length reason.                              *)
(***************************************************************************)
WrongLength(c) ==
  /\ c.method = "GET" /\ Truthy(c.param)
  /\ Len(StripNonDigits(c.param)) # 14

C20_WrongLengthRejected ==
  \A c \in SeenCtx :
    WrongLength(c) =>
      /\ c.found = "none" /\ c.calls = 0
      /\ (c.pc = "done" /\ c.rl # "denied") =>
           out.status = 400 /\ out.message = ERR_LENGTH

(***************************************************************************)
(* C21: the table operations of a request run atomically between           *)
(* suspension points: a suspended request waits at the upstream call,      *)
(* after its admission and its cache lookup and before its cache store;    *)
(* and since checkRateLimit counts and records in one piece, overlapping   *)
(* requests are never admitted past a threshold: the admissions of one     *)
(* address within the window number at most MAX_REQUESTS_PER_MINUTE and,   *)
(* in src/api/cnpj.js, those of one identifier at most                     *)
(* MAX_REQUESTS_PER_CNPJ_PER_MINUTE.                                       *)
(***************************************************************************)
SuspendedAtUpstream(c) ==
  /\ c.pc \in {"fetch", "json", "text"}
  /\ c.rl = "admitted" /\ c.found \in {"absent", "stale"} /\ c.calls = 1
  /\ \A i \in 1..Len(c.steps) : c.steps[i] # "cacheSet"

AdmittedInWindow(Test(_)) ==
  SumCopies(admitLog, {e \in BagToSet(admitLog) : now - e.t < WINDOW_MS /\ Test(e)})

C21_AtomicAdmission ==
  /\ \A c \in Pending : SuspendedAtUpstream(c)
  /\ \A a \in BagToSet(admitLog) :
       /\ AdmittedInWindow(LAMBDA e : e.ip = a.ip) <= MAX_REQUESTS_PER_MINUTE
       /\ variant = "A" =>
            AdmittedInWindow(LAMBDA e : e.cnpj = a.cnpj)
              <= MAX_REQUESTS_PER_CNPJ_PER_MINUTE

(***************************************************************************)
(* C22: a cache lookup that finds an entry of age at least CACHE_TTL       *)
(* deletes that entry (the cache size drops by one and the key no longer   *)
(* counts toward capacity) and returns absent; it neither keeps the stale  *)
(* entry nor refreshes its position in the eviction order.                 *)
(***************************************************************************)
StaleLookup == Arrives /\ Arrived.found = "stale"

C22_StaleLookupDeletes ==
  [][StaleLookup =>
       /\ ~CacheHas(requestCache', Arrived.cleaned)
       /\ Len(requestCache') = Len(requestCache) - 1
       /\ Arrived.calls = 1]_vars

(***************************************************************************)
(* C23: set(k, v) for a key k that is already in the cache overwrites k's  *)
(* entry and evicts no other key, also when the cache is at capacity: the  *)
(* set of cached keys is the same before and after the call; the single    *)
(* oldest entry is evicted only when k is new and the cache is full.       *)
(***************************************************************************)
Keys(cache) == {cache[i].key : i \in 1..Len(cache)}

\* this step is a call of set, and the call
SetCalled ==
  /\ Len(cacheOps') = Len(cacheOps) + 1
  /\ cacheOps'[Len(cacheOps')].op = "set"
SetCall == cacheOps'[Len(cacheOps')]

C23_OverwriteEvictsNothing ==
  [][SetCalled =>
       IF SetCall.key \in Keys(requestCache)
         THEN Keys(requestCache') = Keys(requestCache)
       ELSE IF Len(requestCache) >= MAX_CACHE_SIZE(variant)
         THEN Keys(requestCache') =
                (Keys(requestCache) \ {requestCache[1].key}) \cup {SetCall.key}
       ELSE Keys(requestCache') = Keys(requestCache) \cup {SetCall.key}]_vars

(***************************************************************************)
(* C24: a sweep removes exactly the entries that a lookup would treat as   *)
(* stale: after the periodic sweep no entry of age at least CACHE_TTL      *)
(* remains in the cache, including an entry whose age equals CACHE_TTL     *)
(* exactly, and no entry of age below CACHE_TTL is removed.                *)
(***************************************************************************)
\* this step is the interval callback
Swept == nextSweep' # nextSweep

C24_SweepRemovesStale ==
  [][Swept =>
       requestCache' =
         SelectSeq(requestCache, LAMBDA e : now - e.timestamp < CACHE_TTL)]_vars

(***************************************************************************)
(* C25: every admitted request adds exactly one entry per family to the    *)
(* rate table (two in src/api/cnpj.js: one for the address, one for the    *)
(* identifier; one in src/unnamed/part_000), also when several requests of *)
(* the same subject are admitted at the same millisecond, so that the      *)
(* entries counted for a subject number the requests admitted for it.      *)
(***************************************************************************)
AdmittedStep == Arrives /\ Arrived.rl = "admitted"

NewKeys == DOMAIN rateLimitMap' \ DOMAIN rateLimitMap

C25_OneEntryPerAdmission ==
  [][AdmittedStep =>
       Cardinality(NewKeys) = IF variant = "A" THEN 2 ELSE 1]_vars

(***************************************************************************)
(* C26: in the page, a search whose every attempt fails with an error      *)
(* other than a rate limit is attempted exactly 1 + MAX_RETRIES times      *)
(* before the error is shown, whatever happened in earlier searches:       *)
(* appState.retryCount is 0 whenever no search is in flight, in particular *)
(* after a search that ended in a rate-limit response.                     *)
(***************************************************************************)
NoSearchInFlight == page.searches = EmptyBag

C26_RetriesThenError ==
  /\ NoSearchInFlight => page.retryCount = 0
  /\ page.last = "giveUp" => page.attempts = 1 + MAX_RETRIES

(***************************************************************************)
(* C27: the service worker never stores a response whose status is not 200 *)
(* in its cache, on either fetch path, and so never replays a failed reply *)
(* from the cache.                                                         *)
(***************************************************************************)
StoredResponses == {sw.cache[u] : u \in DOMAIN sw.cache}

C27_OnlyOkIsCached ==
  /\ \A r \in StoredResponses : r.status = 200
  /\ (sw.from = "cache" /\ sw.reply # NoMatch) => sw.reply.status = 200

(***************************************************************************)
(* C28: in src/api/cnpj.js the admission of a request depends only on the  *)
(* earlier admissions of its own address and of its own sanitized          *)
(* identifier: with the admissions at pairwise different instants, it is   *)
(* admitted exactly when both those counts are below their thresholds,     *)
(* whatever was admitted for other addresses and other identifiers.        *)
(***************************************************************************)
OwnAddressBelow ==
  PriorInWindow(LAMBDA e : e.ip = out.ctx.ip) < MAX_REQUESTS_PER_MINUTE

OwnIdentifierBelow ==
  PriorInWindow(LAMBDA e : e.cnpj = sanitizeCNPJ(out.ctx.param))
    < MAX_REQUESTS_PER_CNPJ_PER_MINUTE

C28_OnlyOwnAdmissionsCount ==
  (Decided /\ variant = "A" /\ DistinctInstants)
    => (out.ctx.rl = "admitted" <=> OwnAddressBelow /\ OwnIdentifierBelow)

(***************************************************************************)
(* C29: after a 429 reply has put the page into the rate-limited state, at *)
(* most one countdown interval runs at any time and the countdown ends     *)
(* under fair ticks, for every wait time that parsing can produce: a       *)
(* running countdown has a number of seconds left, which each tick lowers  *)
(* towards 0; when it ends the stored limit is cleared, the interval is    *)
(* stopped, the input and the button are enabled unless the pending search *)
(* was started, and a pending search is retried at most once per           *)
(* countdown.                                                              *)
(***************************************************************************)
OneInterval ==
  /\ Cardinality(page.intervals) <= 1
  /\ \A iv \in page.intervals : iv.id = page.timerInterval

CountdownIsFinite == \A iv \in page.intervals : ~iv.remaining.nan

CountdownEnded ==
  page.last = "end" =>
    /\ page.resetTime = NoItem
    /\ page.intervals = {}
    /\ page.pendingSearch = NoSearch
    /\ NoSearchInFlight => ~page.disabled

C29_CountdownEnds ==
  /\ OneInterval
  /\ CountdownIsFinite
  /\ CountdownEnded
  /\ page.autoRetries <= 1

(***************************************************************************)
(* C30: after a saveToHistory call the stored history holds at most        *)
(* MAX_SEARCH_HISTORY entries, at most one per identifier, and the entry   *)
(* just saved; when the bound was exceeded, the one entry dropped has the  *)
(* oldest timestamp.                                                       *)
(***************************************************************************)
HistoryEntries(h) == {h[i] : i \in 1..Len(h)}

Saved == page'.saves = page.saves + 1

\* the history with the new entry, before it is cut to the bound
Uncut == HistoryEntries(HistoryPut(history, page'.lastSaved))

HistoryBounded ==
  /\ Len(history') <= MAX_SEARCH_HISTORY
  /\ \A i, j \in 1..Len(history') :
       history'[i].cnpj = history'[j].cnpj => i = j

HoldsLastSaved == page'.lastSaved \in HistoryEntries(history')

DropsOldest ==
  \A d \in Uncut \ HistoryEntries(history') :
    \A e \in HistoryEntries(history') : d.timestamp <= e.timestamp

C30_HistoryKeepsNewest ==
  [][Saved => HistoryBounded /\ HoldsLastSaved /\ DropsOldest]_vars

====
